---- MODULE Spec2Model ----
(***************************************************************************)
(* Model of the client-side analytics pipeline of the repository           *)
(* dashboard: the statistics engine (three implementations), the worker    *)
(* message handler, the percentile selector, the scaling transform, the    *)
(* histogram binning engine, the data reduction layer and the scatter      *)
(* plot's choice among its strategies, the useWebWorker hook, the          *)
(* useAsyncDataProcessing execution shell, useProgressiveRendering and     *)
(* the batch upload of CSVUploader.                                        *)
(*                                                                         *)
(* Numbers are modelled exactly, except in the rounded arithmetic of the   *)
(* scaling transform.  A field value is a tagged record, so                *)
(* that typeof, isNaN and the sign test of the code's filters are real     *)
(* tests.  mean and std are kept in hundredths, which is what              *)
(* Math.round(x * 100) / 100 keeps of them.                                *)
(***************************************************************************)
EXTENDS Integers, Sequences, FiniteSets, TLC

VARIABLES
    records,      \* the selected column of the record collection, one field value per record
    points,       \* the point sequence given to the data reduction layer
    out           \* the last engine call made on records or points: [op, ...] with its outcome

fnVars == <<records, points, out>>

VARIABLES
    kind,         \* the caller of this useWebWorker instance: "stats", "downsample" or "scatter"
    workerRef,    \* TRUE when workerRef.current holds a worker, FALSE when it is null
    workerFailed, \* the worker has raised its error event and handles no more messages
    promiseRef,   \* 0 for null, else the call whose resolve / reject promiseRef.current holds
    calls,        \* the processData calls made, in order: request, promise status, timer, caller
    reqQueue,     \* messages posted to the worker and not yet handled (call ids)
    respQueue,    \* responses posted by the worker and not yet delivered to onmessage
    isProcessing, \* useWebWorker isProcessing
    hookError     \* useWebWorker error: "null" or the message of the Error set

hookVars == <<kind, workerRef, workerFailed, promiseRef, calls, reqQueue, respQueue,
              isProcessing, hookError>>

VARIABLES
    version,       \* the render whose data and dependencies processorRef.current closes over
    dataLength,    \* data.length of the current record collection
    invocations,   \* the processData invocations of useAsyncDataProcessing, in order
    processedData, \* useAsyncDataProcessing processedData: NullData or a processor's result
    isLoading,     \* useAsyncDataProcessing isLoading
    error          \* useAsyncDataProcessing error: "null" or the error stored

shellVars == <<version, dataLength, invocations, processedData, isLoading, error>>

VARIABLES
    progressive,   \* one useProgressiveRendering instance: its props, state and interval timer
    uploader       \* the CSVUploader component: its state and the handleFiles call in progress

uiVars == <<progressive, uploader>>

vars == <<records, points, out, kind, workerRef, workerFailed, promiseRef, calls,
          reqQueue, respQueue, isProcessing, hookError,
          version, dataLength, invocations, processedData, isLoading, error,
          progressive, uploader>>

-----------------------------------------------------------------------------
(* Bounds of the model *)

MaxLen == 3       \* longest record collection drawn
MaxVal == 3       \* largest numeric field value drawn
MaxNeg == 1       \* most negative numeric field value drawn is -MaxNeg
MaxPoints == 2    \* largest maxPoints drawn for DOWNSAMPLE_DATA
MaxPts == 4       \* longest point sequence drawn
MaxCoord == 1     \* largest point coordinate drawn
MaxTarget == 4    \* largest targetPoints / sampleSize drawn
MaxTol == 2       \* largest deduplication tolerance drawn
MaxBins == 3      \* largest binCount drawn for PROCESS_HISTOGRAM
MaxCalls == 3     \* processData calls made on one useWebWorker instance
MaxData == 2      \* record collections 1..k, k <= MaxData, given to the hooks
MaxInvocations == 3  \* processData invocations of one useAsyncDataProcessing instance
MaxVersion == 2   \* changes of data or dependencies after the mount
MaxDataLen == 2   \* largest data.length given to useAsyncDataProcessing
MantissaBits == 3 \* bits of the significand the rounded arithmetic keeps
MaxExp == 12      \* binary exponents of the rounded arithmetic are within -MaxExp..MaxExp
LoopSlice == 25   \* iterations of a reduction loop evaluated in one step of processScatterData
MaxSpacing == 2   \* largest spacing of the x coordinates of a scatter input
ScenarioPoints == 12000  \* size of the large scatter input
SelectorRecords == 100   \* size of the large percentile selector input
MaxMult == 3      \* its sizes are (i * m) % q for m in 1..MaxMult
MaxSeq == 5       \* longest sequence given to useProgressiveRendering
MaxBatch == 3     \* largest batchSize given to useProgressiveRendering
MaxChanges == 1   \* changes of the props of useProgressiveRendering after the mount
MaxFiles == 2     \* most files given to one handleFiles call
MaxBatches == 2   \* handleFiles calls made on one CSVUploader
MaxRows == 1      \* most records parseCSV returns for one file

-----------------------------------------------------------------------------
(* Field values *)

Num(v) == [type |-> "number", nan |-> FALSE, val |-> v]
NaNValue == [type |-> "number", nan |-> TRUE, val |-> 0]
StrValue == [type |-> "string", nan |-> FALSE, val |-> 0]

FieldValues == {Num(v) : v \in (0 - MaxNeg)..MaxVal} \cup {NaNValue, StrValue}

\* the concrete scenario 1..10
OneToTen == [i \in 1..10 |-> Num(i)]

\* the concrete scenario [0, 0, 0, 0, 10]
FourZerosAndTen == <<Num(0), Num(0), Num(0), Num(0), Num(10)>>

-----------------------------------------------------------------------------
(* Array helpers *)

RECURSIVE Insert(_, _)
Insert(x, s) ==
    IF s = <<>> THEN <<x>>
    ELSE IF x <= Head(s) THEN <<x>> \o s
    ELSE <<Head(s)>> \o Insert(x, Tail(s))

\* the array left as it is
Unsorted(s) == s

\* values.sort((a, b) => a - b) on an array of numbers
RECURSIVE SortAsc(_)
SortAsc(s) == IF s = <<>> THEN <<>> ELSE Insert(Head(s), SortAsc(Tail(s)))

RECURSIVE Sum(_)
Sum(s) == IF s = <<>> THEN 0 ELSE Head(s) + Sum(Tail(s))

Map(s, F(_)) == [i \in 1..Len(s) |-> F(s[i])]

Square(x) == x * x

Max2(a, b) == IF a >= b THEN a ELSE b
Min2(a, b) == IF a <= b THEN a ELSE b

\* Math.ceil(a / b) for b > 0
CeilDiv(a, b) == 0 - ((0 - a) \div b)

\* Math.round(a / b) for b > 0: half rounds up
RoundDiv(a, b) == (2 * a + b) \div (2 * b)

ValOf(fv) == fv.val

-----------------------------------------------------------------------------
(* Statistics engine *)

ZeroSummary ==
    [count |-> 0, mean |-> 0, std |-> 0, min |-> 0, max |-> 0,
     p25 |-> 0, p50 |-> 0, p75 |-> 0]

\* Math.round(Math.sqrt(variance) * 100), variance = sum((v - mean)^2) / count:
\* with D = count * sum(v^2) - sum(v)^2, std = sqrt(D) / count, and the rounded
\* value is the r with (2r - 1) * count <= 200 * sqrt(D) < (2r + 1) * count.
StdHundredths(values) ==
    LET count == Len(values)
        D == count * Sum(Map(values, Square)) - Square(Sum(values))
        elems == {values[i] : i \in 1..count}
        hi == CHOOSE x \in elems : \A y \in elems : y <= x
        lo == CHOOSE x \in elems : \A y \in elems : x <= y
        top == 100 * (hi - lo) + 1
    IN CHOOSE r \in 0..top :
          /\ (r = 0 \/ Square(2 * r - 1) * Square(count) <= 40000 * D)
          /\ 40000 * D < Square(2 * r + 1) * Square(count)

\* the rank rounded down and not moved to a 0-based index
PercentileIndexFloor(count, p) == (count * p) \div 100

\* const index = Math.ceil(count * p / 100) - 1
PercentileIndex(count, p) == CeilDiv(count * p, 100) - 1

\* values[Math.max(0, Math.min(index, count - 1))], values 0-indexed in the code
getPercentile(values, p) ==
    LET count == Len(values)
    IN values[Max2(0, Min2(PercentileIndex(count, p), count - 1)) + 1]

\* the part of the three implementations that follows the empty test:
\* values is the sorted sample
Summarise(values) ==
    LET count == Len(values)
    IN [count |-> count,
        mean  |-> RoundDiv(100 * Sum(values), count),
        std   |-> StdHundredths(values),
        min   |-> values[1],
        max   |-> values[count],
        p25   |-> getPercentile(values, 25),
        p50   |-> getPercentile(values, 50),
        p75   |-> getPercentile(values, 75)]

IsNumber(fv) == fv.type = "number" /\ ~fv.nan
IsValid(fv) == fv.type = "number" /\ ~fv.nan /\ fv.val >= 0

\* analytics: .filter(val => typeof val === 'number' && !isNaN(val))
analyticsValues(data) == Map(SelectSeq(data, IsNumber), ValOf)

\* worker and sync fallback:
\* .filter(val => typeof val === 'number' && !isNaN(val) && val >= 0)
workerValues(data) == Map(SelectSeq(data, IsValid), ValOf)

syncValues(data) == Map(SelectSeq(data, IsValid), ValOf)

\* lib/analytics calculateStatistics
calculateStatistics(data) ==
    LET values == analyticsValues(data)
    IN IF Len(values) = 0 THEN ZeroSummary ELSE Summarise(SortAsc(values))

\* dataWorker calculateStatistics
workerCalculateStatistics(data) ==
    LET values == SortAsc(workerValues(data))
    IN IF Len(values) = 0 THEN ZeroSummary ELSE Summarise(values)

\* useWebWorker calculateStatisticsSync
calculateStatisticsSync(data) ==
    LET values == SortAsc(syncValues(data))
    IN IF Len(values) = 0 THEN ZeroSummary ELSE Summarise(values)

-----------------------------------------------------------------------------
(* Downsampling: worker handler and main-thread fallback *)

RECURSIVE SampleLoop(_, _, _, _, _, _)
\* for (let i = 0; i < data.length && sampled.length < sampleSize; i += step)
\*   sampled.push(data[i])
\* from the iteration at index i until sampled holds stop elements; the whole
\* loop is the one with stop = sampleSize
SampleLoop(data, sampleSize, step, i, stop, sampled) ==
    IF i < Len(data) /\ Len(sampled) < sampleSize /\ Len(sampled) < stop
    THEN SampleLoop(data, sampleSize, step, i + step, stop, Append(sampled, data[i + 1]))
    ELSE sampled

\* Math.floor(data.length / sampleSize); with sampleSize = 0 the quotient is
\* Infinity and the loop body never runs, so the step is never used
StepOf(n, sampleSize) == IF sampleSize = 0 THEN 0 ELSE n \div sampleSize

\* dataWorker systematicSample
workerSystematicSample(data, sampleSize) ==
    SampleLoop(data, sampleSize, StepOf(Len(data), sampleSize), 0, sampleSize, <<>>)

InjectiveSeqs(n, k) ==
    {f \in [1..k -> 1..n] : \A a, b \in 1..k : a # b => f[a] # f[b]}

\* dataWorker randomSample: [...data].sort(() => Math.random() - 0.5).slice(0, k):
\* the first k elements of some arrangement of the data
workerRandomSample(data, sampleSize) ==
    LET k == Min2(sampleSize, Len(data))
    IN {[i \in 1..k |-> data[f[i]]] : f \in InjectiveSeqs(Len(data), k)}

Methods == {"systematic", "random", "lttb"}

\* dataWorker downsampleData: the set of values it can return
workerDownsampleData(data, maxPoints, method) ==
    IF Len(data) <= maxPoints THEN {data}
    ELSE IF method = "random" THEN workerRandomSample(data, maxPoints)
    ELSE {workerSystematicSample(data, maxPoints)}

\* useWebWorker downsampleDataSync: the method is not read
downsampleDataSync(data, maxPoints, method) ==
    IF Len(data) <= maxPoints THEN data
    ELSE SampleLoop(data, maxPoints, StepOf(Len(data), maxPoints), 0, maxPoints, <<>>)

-----------------------------------------------------------------------------
(* Percentile selector *)

\* [...data].sort((a, b) => a.Repo_Size_mb - b.Repo_Size_mb) is a stable merge
\* sort; the sorted array is kept as the indices the records have in data.
\* Merging the sorted runs a and b: an element of a goes after the elements
\* of b that are smaller, an element of b after those of a that are not larger.
MergeBySize(data, a, b) ==
    LET posA(j) == j + Cardinality({k \in 1..Len(b) : data[b[k]].val < data[a[j]].val})
        posB(j) == j + Cardinality({k \in 1..Len(a) : data[a[k]].val <= data[b[j]].val})
    IN [k \in 1..(Len(a) + Len(b)) |->
            IF \E j \in 1..Len(a) : posA(j) = k
            THEN a[CHOOSE j \in 1..Len(a) : posA(j) = k]
            ELSE b[CHOOSE j \in 1..Len(b) : posB(j) = k]]

RECURSIVE SortBySizeRange(_, _, _)
SortBySizeRange(data, lo, hi) ==
    IF lo > hi THEN <<>>
    ELSE IF lo = hi THEN <<lo>>
    ELSE LET mid == (lo + hi) \div 2
         IN MergeBySize(data, SortBySizeRange(data, lo, mid),
                              SortBySizeRange(data, mid + 1, hi))

\* the records in their input order
InputOrder(data) == [i \in 1..Len(data) |-> i]

\* indices of the records, ascending by size
SortBySize(data) == SortBySizeRange(data, 1, Len(data))

Threw(e) == [threw |-> TRUE, error |-> e]
Returned(v) == [threw |-> FALSE, value |-> v]

\* lib/analytics getPercentileRepos: data is RepositoryData[], so every
\* Repo_Size_mb is a number.  A record is named by its index in data.
\* With count = 0 the index is clamped to 0, sortedData[0] is undefined and
\* reading repo.Repo_Size_mb throws.
getPercentileRepos(data, percentiles) ==
    LET sortedData == SortBySize(data)
        count == Len(sortedData)
        pick(p) == Max2(0, Min2(PercentileIndex(count, p), count - 1)) + 1
    IN IF count = 0 /\ Len(percentiles) > 0
       THEN Threw("TypeError")
       ELSE Returned([k \in 1..Len(percentiles) |->
                [repo       |-> sortedData[pick(percentiles[k])],
                 percentile |-> percentiles[k],
                 size       |-> data[sortedData[pick(percentiles[k])]].val]])

PercentileLists == {<<>>, <<50>>, <<10, 90>>}

\* Array.prototype.slice(start, end) with 0 <= start, 0-indexed, end excluded
Slice(s, start, end) == SubSeq(s, start + 1, Min2(end, Len(s)))

\* SizeAnalysis: the indices and the two groups the component shows
SizeAnalysis(data) ==
    LET sortedData == SortBySize(data)
        count == Len(sortedData)
        p10Index == PercentileIndex(count, 10)
        p90Index == PercentileIndex(count, 90)
    IN [sortedData |-> sortedData,
        p10Index |-> p10Index,
        p90Index |-> p90Index,
        p10Repos |-> Slice(sortedData, 0, Min2(10, p10Index + 1)),
        p90Repos |-> Slice(sortedData, Max2(0, p90Index),
                           Min2(Len(sortedData), p90Index + 10))]

-----------------------------------------------------------------------------
(* Scaling transform.  A scaled sequence is kept exactly as the numerators *)
(* nums over the common divisor den * sqrt(root); sameArray tells whether  *)
(* the array returned is the caller's own array.                           *)

ScalingMethods == {"none", "minmax", "zscore", "robust"}

Unscaled(values) == [nums |-> values, den |-> 1, root |-> 1, sameArray |-> TRUE]

\* a decreasing map in place of the scaling: v => -v
applyScalingDecreasing(values, method) ==
    IF method = "none" THEN Unscaled(values)
    ELSE [nums |-> [i \in 1..Len(values) |-> 0 - values[i]], den |-> 1, root |-> 1,
          sameArray |-> FALSE]

\* Histogram.applyScaling and dataWorker applyScaling (the same text)
applyScaling(values, method) ==
    LET n == Len(values)
        sorted == SortAsc(values)
        S == Sum(values)
        D == n * Sum(Map(values, Square)) - Square(S)
        fresh(nums, den, root) ==
            [nums |-> nums, den |-> den, root |-> root, sameArray |-> FALSE]
    IN IF method = "none" THEN Unscaled(values)
       ELSE IF n = 0 THEN fresh(<<>>, 1, 1)
       ELSE IF method = "minmax" THEN
            \* range === 0 ? values : values.map(v => (v - min) / range)
            IF sorted[n] - sorted[1] = 0 THEN Unscaled(values)
            ELSE fresh([i \in 1..n |-> values[i] - sorted[1]], sorted[n] - sorted[1], 1)
       ELSE IF method = "zscore" THEN
            \* std === 0 ? values : values.map(v => (v - mean) / std),
            \* mean = S / n, std = sqrt(D) / n
            IF D = 0 THEN Unscaled(values)
            ELSE fresh([i \in 1..n |-> n * values[i] - S], 1, D)
       ELSE IF method = "robust" THEN
            LET q1 == sorted[(n \div 4) + 1]
                q3 == sorted[((3 * n) \div 4) + 1]
                median == sorted[(n \div 2) + 1]
            IN IF q3 - q1 = 0 THEN Unscaled(values)
               ELSE fresh([i \in 1..n |-> values[i] - median], q3 - q1, 1)
       ELSE Unscaled(values)

-----------------------------------------------------------------------------
(* Floating-point arithmetic.  The code computes in IEEE 754 binary64:     *)
(* every +, -, *, / and Math.sqrt returns the exact result rounded to the  *)
(* nearest number with a 53-bit significand, ties to even.  The model      *)
(* keeps the rounding and reduces the significand to MantissaBits bits.   *)
(* A number is the fraction num / den in lowest terms, den a power of two. *)

Fl(num, den) == [num |-> num, den |-> den]

FlZero == Fl(0, 1)

\* the integer i as a number (exact while i has at most MantissaBits bits)
FlInt(i) == Fl(i, 1)

\* m * 2^e in lowest terms
FlNormal(m, e) ==
    IF m = 0 THEN FlZero
    ELSE IF e >= 0 THEN Fl(m * 2^e, 1)
    ELSE LET j == CHOOSE j \in 0..(0 - e) :
                    /\ m % (2^j) = 0
                    /\ (j = 0 - e \/ m % (2^(j + 1)) # 0)
         IN Fl(m \div 2^j, 2^((0 - e) - j))

\* a / (b * 2^e) as a pair <<numerator, denominator>>
FlScaled(a, b, e) == IF e >= 0 THEN <<a, b * 2^e>> ELSE <<a * 2^(0 - e), b>>

\* the exponent e with 2^(MantissaBits - 1) <= a / (b * 2^e) < 2^MantissaBits, a, b > 0
FlExponent(a, b) ==
    CHOOSE e \in (0 - MaxExp)..MaxExp :
        LET s == FlScaled(a, b, e)
        IN /\ 2^(MantissaBits - 1) * s[2] <= s[1]
           /\ s[1] < 2^MantissaBits * s[2]

\* the quotient a / b (b > 0) rounded to the nearest number, ties to even
FlRound(a, b) ==
    IF a = 0 THEN FlZero
    ELSE LET mag == IF a < 0 THEN 0 - a ELSE a
             e == FlExponent(mag, b)
             s == FlScaled(mag, b, e)
             q == s[1] \div s[2]
             twice == 2 * (s[1] % s[2])
             m == IF twice > s[2] \/ (twice = s[2] /\ q % 2 = 1) THEN q + 1 ELSE q
         IN FlNormal(IF a < 0 THEN 0 - m ELSE m, e)

FlAdd(x, y) == FlRound(x.num * y.den + y.num * x.den, x.den * y.den)
FlSub(x, y) == FlRound(x.num * y.den - y.num * x.den, x.den * y.den)
FlMul(x, y) == FlRound(x.num * y.num, x.den * y.den)
\* x / y for y # 0
FlDiv(x, y) ==
    IF y.num > 0 THEN FlRound(x.num * y.den, x.den * y.num)
    ELSE FlRound(0 - x.num * y.den, x.den * (0 - y.num))
FlLess(x, y) == x.num * y.den < y.num * x.den

\* Math.sqrt(x) for x >= 0: the m * 2^e nearest to the square root
FlSqrt(x) ==
    IF x.num = 0 THEN FlZero
    ELSE LET \* m^2 * 4^e compared with x: <<left, right>> with left <= right iff (m * 2^e)^2 <= x
             sq(m, e) == IF e >= 0 THEN <<m * m * 4^e * x.den, x.num>>
                         ELSE <<m * m * x.den, x.num * 4^(0 - e)>>
             e == CHOOSE e \in (0 - MaxExp)..MaxExp :
                    /\ sq(2^(MantissaBits - 1), e)[1] <= sq(2^(MantissaBits - 1), e)[2]
                    /\ sq(2^MantissaBits, e)[1] > sq(2^MantissaBits, e)[2]
             lowM == CHOOSE m \in (2^(MantissaBits - 1))..(2^MantissaBits - 1) :
                    /\ sq(m, e)[1] <= sq(m, e)[2]
                    /\ sq(m + 1, e)[1] > sq(m + 1, e)[2]
             \* (2m + 1)^2 * 4^e < 4x: the root is above the midpoint
             above == sq(2 * lowM + 1, e)[1] < 4 * sq(2 * lowM + 1, e)[2]
         IN FlNormal(IF above THEN lowM + 1 ELSE lowM, e)

\* values.reduce((sum, v) => sum + f(v), 0)
RECURSIVE FlSumFrom(_, _)
FlSumFrom(acc, s) == IF s = <<>> THEN acc ELSE FlSumFrom(FlAdd(acc, Head(s)), Tail(s))

RECURSIVE FlInsert(_, _)
FlInsert(x, s) ==
    IF s = <<>> THEN <<x>>
    ELSE IF ~FlLess(Head(s), x) THEN <<x>> \o s
    ELSE <<Head(s)>> \o FlInsert(x, Tail(s))

\* [...values].sort((a, b) => a - b) on numbers
RECURSIVE FlSortAsc(_)
FlSortAsc(s) == IF s = <<>> THEN <<>> ELSE FlInsert(Head(s), FlSortAsc(Tail(s)))

\* Histogram.applyScaling and dataWorker applyScaling (the same text) with
\* the rounding of every operation: values is the array returned, sameArray
\* tells whether it is the caller's own array
applyScalingRounded(values, method) ==
    LET n == Len(values)
        sorted == FlSortAsc(values)
        own == [values |-> values, sameArray |-> TRUE]
        fresh(vs) == [values |-> vs, sameArray |-> FALSE]
    IN IF method = "none" THEN own
       ELSE IF n = 0 THEN fresh(<<>>)
       ELSE IF method = "minmax" THEN
            LET min == sorted[1]
                max == sorted[n]
                range == FlSub(max, min)
            IN IF range = FlZero THEN own
               ELSE fresh([i \in 1..n |-> FlDiv(FlSub(values[i], min), range)])
       ELSE IF method = "zscore" THEN
            LET mean == FlDiv(FlSumFrom(FlZero, values), FlInt(n))
                squares == [i \in 1..n |->
                              FlMul(FlSub(values[i], mean), FlSub(values[i], mean))]
                variance == FlDiv(FlSumFrom(FlZero, squares), FlInt(n))
                std == FlSqrt(variance)
            IN IF std = FlZero THEN own
               ELSE fresh([i \in 1..n |-> FlDiv(FlSub(values[i], mean), std)])
       ELSE IF method = "robust" THEN
            LET q1 == sorted[(n \div 4) + 1]
                q3 == sorted[((3 * n) \div 4) + 1]
                iqr == FlSub(q3, q1)
                median == sorted[(n \div 2) + 1]
            IN IF iqr = FlZero THEN own
               ELSE fresh([i \in 1..n |-> FlDiv(FlSub(values[i], median), iqr)])
       ELSE own

-----------------------------------------------------------------------------
(* Binning engine *)

\* Math.ceil(Math.log2(n)) for n >= 1
CeilLog2(n) == CHOOSE k \in 0..31 : 2^k >= n /\ (k = 0 \/ 2^(k - 1) < n)

\* Math.ceil(Math.cbrt(n) * 2): the least k with k^3 >= 8 n
CeilCbrt2(n) == CHOOSE k \in 0..(2 * n) : k * k * k >= 8 * n /\ (k = 0 \/ (k - 1) * (k - 1) * (k - 1) < 8 * n)

\* Math.ceil(Math.pow(n, 1/3) * 3.5): the least k with (2k)^3 >= 343 n
CeilCbrt35(n) == CHOOSE k \in 0..(4 * n) : 8 * k * k * k >= 343 * n /\ (k = 0 \/ 8 * (k - 1) * (k - 1) * (k - 1) < 343 * n)

\* lib/dataOptimization calculateOptimalBinCount
calculateOptimalBinCount(n, method) ==
    IF method = "freedman" THEN Max2(5, Min2(50, CeilCbrt2(n)))
    ELSE IF method = "scott" THEN Max2(5, Min2(40, CeilCbrt35(n)))
    ELSE Max2(5, Min2(30, CeilLog2(n) + 1))

\* Histogram.generateHistogramData, the bin count
histogramBinCount(n, optimizeData) ==
    IF optimizeData /\ n > 1000 THEN calculateOptimalBinCount(n, "freedman")
    ELSE Max2(5, Min2(20, CeilLog2(n) + 1))

\* Math.min(Math.floor((v - lo) / width), binCount - 1) with width = (hi - lo) / binCount.
\* With hi = lo the quotient is 0 / 0 = NaN and so is the index: "NaN".
BinIndex(v, lo, hi, binCount) ==
    IF hi = lo THEN "NaN"
    ELSE Min2(((v - lo) * binCount) \div (hi - lo), binCount - 1)

CountAt(values, lo, hi, binCount, i) ==
    Cardinality({k \in 1..Len(values) : BinIndex(values[k], lo, hi, binCount) = i})

\* The body shared by Histogram.generateHistogramData and dataWorker
\* processHistogramData, from the scaling on.  start and end are in units of
\* 1 / binCount; scaledStart and scaledEnd in units of
\* 1 / (binCount * scaledDen * sqrt(scaledRoot)); percentage in units of
\* 1 / totalCount.  The labels range and scaledRange are not modelled.
\* bins[NaN].originalCount++ throws when max = min.
buildBins(rawValues, scalingMethod, binCount) ==
    LET scaled == applyScaling(rawValues, scalingMethod)
        originalSorted == SortAsc(rawValues)
        min == originalSorted[1]
        max == originalSorted[Len(originalSorted)]
        scaledSorted == SortAsc(scaled.nums)
        scaledMin == scaledSorted[1]
        scaledMax == scaledSorted[Len(scaledSorted)]
        totalCount == Len(rawValues)
        originalCount(i) == CountAt(rawValues, min, max, binCount, i)
        bin(i) ==
            [start |-> min * binCount + i * (max - min),
             end |-> min * binCount + (i + 1) * (max - min),
             scaledStart |-> IF scalingMethod # "none"
                             THEN scaledMin * binCount + i * (scaledMax - scaledMin)
                             ELSE min * binCount + i * (max - min),
             scaledEnd |-> IF scalingMethod # "none"
                           THEN scaledMin * binCount + (i + 1) * (scaledMax - scaledMin)
                           ELSE min * binCount + (i + 1) * (max - min),
             scaledDen |-> IF scalingMethod # "none" THEN scaled.den ELSE 1,
             scaledRoot |-> IF scalingMethod # "none" THEN scaled.root ELSE 1,
             originalCount |-> originalCount(i),
             scaledCount |-> IF scalingMethod # "none"
                             THEN CountAt(scaled.nums, scaledMin, scaledMax, binCount, i)
                             ELSE originalCount(i),
             percentage |-> originalCount(i) * 100]
    IN IF max = min THEN Threw("TypeError")
       ELSE Returned([k \in 1..binCount |-> bin(k - 1)])

\* Histogram.generateHistogramData
generateHistogramData(data, scalingMethod, optimizeData) ==
    LET rawValues == Map(SelectSeq(data, IsValid), ValOf)
    IN IF Len(rawValues) = 0 THEN Returned(<<>>)
       ELSE buildBins(rawValues, scalingMethod, histogramBinCount(Len(rawValues), optimizeData))

\* dataWorker processHistogramData
processHistogramData(data, scalingMethod, binCount) ==
    LET rawValues == Map(SelectSeq(data, IsValid), ValOf)
    IN IF Len(rawValues) = 0 THEN Returned(<<>>)
       ELSE buildBins(rawValues, scalingMethod, binCount)

-----------------------------------------------------------------------------
(* Data reduction layer.  A point is [x, y, id]: id is its identity, the   *)
(* position it had in the input sequence.                                  *)

Abs(x) == IF x < 0 THEN 0 - x ELSE x

PointX(pt) == pt.x
PointY(pt) == pt.y

\* Math.floor(k * bucketSize) + 1 with bucketSize = (n - 2) / (targetPoints - 2)
BucketBound(k, n, targetPoints) == ((k * (n - 2)) \div (targetPoints - 2)) + 1

\* twice the triangle area of the code, times the averaged range's length
\* (a positive factor common to the candidates of one bucket)
ScaledArea(prevPoint, cand, sumX, sumY, avgRangeLength) ==
    Abs((prevPoint.x * avgRangeLength - sumX) * (cand.y - prevPoint.y)
        - (prevPoint.x - cand.x) * (sumY - prevPoint.y * avgRangeLength))

RECURSIVE LTTBLoop(_, _, _, _, _)
\* the body of for (let i = 1; i < targetPoints - 1; i++), bucketIndex = i - 1;
\* indices are the code's 0-based ones.  The iterations i .. stop - 1 are
\* run; the whole loop is the one with stop = targetPoints - 1
LTTBLoop(data, targetPoints, i, stop, downsampled) ==
    IF ~(i < targetPoints - 1) \/ ~(i < stop) THEN downsampled
    ELSE
      LET n == Len(data)
          avgRangeStart == BucketBound(i - 1, n, targetPoints)
          avgRangeEnd == BucketBound(i, n, targetPoints)
          avgRangeLength == avgRangeEnd - avgRangeStart
          avgRange == {j \in avgRangeStart..(avgRangeEnd - 1) : j < n}
          avgPts == [k \in 1..Cardinality(avgRange) |-> data[avgRangeStart + k]]
          sumX == Sum(Map(avgPts, PointX))
          sumY == Sum(Map(avgPts, PointY))
          rangeStart == BucketBound(i - 1, n, targetPoints)
          rangeEnd == BucketBound(i, n, targetPoints)
          range == {j \in rangeStart..(rangeEnd - 1) : j < n}
          prevPoint == downsampled[Len(downsampled)]
          area(j) == ScaledArea(prevPoint, data[j + 1], sumX, sumY, avgRangeLength)
          \* area > maxArea keeps the first of the largest
          maxAreaIndex ==
              IF range = {} THEN rangeStart
              ELSE CHOOSE j \in range :
                     /\ \A k \in range : area(k) <= area(j)
                     /\ \A k \in range : k < j => area(k) < area(j)
      IN LTTBLoop(data, targetPoints, i + 1, stop, Append(downsampled, data[maxAreaIndex + 1]))

\* the selection without the final push of the last point
downsampleLTTBNoLast(data, targetPoints) ==
    IF Len(data) <= targetPoints \/ targetPoints < 3 THEN data
    ELSE LTTBLoop(data, targetPoints, 1, targetPoints - 1, <<data[1]>>)

\* lib/dataOptimization downsampleLTTB
downsampleLTTB(data, targetPoints) ==
    IF Len(data) <= targetPoints \/ targetPoints < 3 THEN data
    ELSE Append(LTTBLoop(data, targetPoints, 1, targetPoints - 1, <<data[1]>>), data[Len(data)])

\* distance < tolerance, distance = sqrt(dx^2 + dy^2), tolerance an integer
Closer(a, b, tolerance) ==
    tolerance > 0 /\ Square(a.x - b.x) + Square(a.y - b.y) < Square(tolerance)

RECURSIVE DedupLoop(_, _, _, _, _)
\* for (let i = 1; i < data.length; i++), i here the 1-based position of
\* current.  The iterations i .. stop are run; the whole loop is the one with
\* stop = data.length
DedupLoop(data, tolerance, i, stop, deduplicated) ==
    IF i > Len(data) \/ i > stop THEN deduplicated
    ELSE LET current == data[i]
             isDuplicate ==
                 \E k \in 1..Len(deduplicated) : Closer(current, deduplicated[k], tolerance)
         IN DedupLoop(data, tolerance, i + 1, stop,
                      IF isDuplicate THEN deduplicated ELSE Append(deduplicated, current))

RECURSIVE DedupAdjacentLoop(_, _, _, _)
DedupAdjacentLoop(data, tolerance, i, deduplicated) ==
    IF i > Len(data) THEN deduplicated
    ELSE LET current == data[i]
             isDuplicate == Closer(current, deduplicated[Len(deduplicated)], tolerance)
         IN DedupAdjacentLoop(data, tolerance, i + 1,
                      IF isDuplicate THEN deduplicated ELSE Append(deduplicated, current))

\* a deduplication that compares a point with the last kept point only
deduplicateAdjacent(data, tolerance) ==
    IF Len(data) = 0 THEN data
    ELSE DedupAdjacentLoop(data, tolerance, 2, <<data[1]>>)

\* lib/dataOptimization deduplicatePoints (dataWorker deduplicatePoints is the same text)
deduplicatePoints(data, tolerance) ==
    IF Len(data) = 0 THEN data
    ELSE DedupLoop(data, tolerance, 2, Len(data), <<data[1]>>)

\* lib/dataOptimization systematicSample
systematicSample(data, sampleSize) ==
    SampleLoop(data, sampleSize, StepOf(Len(data), sampleSize), 0, sampleSize, <<>>)

\* lib/dataOptimization randomSample
randomSample(data, sampleSize) ==
    LET k == Min2(sampleSize, Len(data))
    IN {[i \in 1..k |-> data[f[i]]] : f \in InjectiveSeqs(Len(data), k)}

\* lib/dataOptimization stratifiedSample: one index drawn in each chunk
stratifiedSample(data, sampleSize) ==
    LET n == Len(data)
        chunkSize == StepOf(n, sampleSize)
        used == {i \in 0..(sampleSize - 1) : i * chunkSize < n}
        chunk(i) == {j \in (i * chunkSize)..(Min2((i + 1) * chunkSize, n) - 1) : TRUE}
    IN IF \E i \in used : chunk(i) = {} THEN {}
       ELSE {[k \in 1..Cardinality(used) |-> data[f[k - 1] + 1]] :
                f \in {g \in [used -> 0..(n - 1)] : \A i \in used : g[i] \in chunk(i)}}

Strategies == {"random", "systematic", "stratified"}

\* lib/dataOptimization sampleData: the set of values it can return
sampleData(data, sampleSize, strategy) ==
    IF Len(data) <= sampleSize THEN {data}
    ELSE IF strategy = "random" THEN randomSample(data, sampleSize)
    ELSE IF strategy = "stratified" THEN stratifiedSample(data, sampleSize)
    ELSE {systematicSample(data, sampleSize)}

\* for (let i = 0; i < data.length; i += step) sampled.push(data[i]): every
\* step-th element; with step = Infinity (maxPoints = 0) only data[0]
EveryStep(data, step) ==
    IF step = 0 THEN SubSeq(data, 1, 1)
    ELSE [k \in 1..CeilDiv(Len(data), step) |-> data[(k - 1) * step + 1]]

\* useDownsampling without the final slice
useDownsamplingUncut(data, maxPoints, enabled) ==
    IF ~enabled \/ Len(data) <= maxPoints THEN data
    ELSE EveryStep(data, StepOf(Len(data), maxPoints))

\* hooks/useDataProcessing useDownsampling
useDownsampling(data, maxPoints, enabled) ==
    IF ~enabled \/ Len(data) <= maxPoints THEN data
    ELSE LET sampled == EveryStep(data, StepOf(Len(data), maxPoints))
         IN SubSeq(sampled, 1, Min2(maxPoints, Len(sampled)))

Coords == 0..MaxCoord

\* a point sequence with the given coordinates: the i-th point has identity i
PointsOf(xy) == [i \in 1..Len(xy) |-> [x |-> xy[i][1], y |-> xy[i][2], id |-> i]]

-----------------------------------------------------------------------------
(* The worker's message handler *)

MessageTypes ==
    {"CALCULATE_STATISTICS", "DOWNSAMPLE_DATA", "PROCESS_HISTOGRAM",
     "DEDUPLICATE_POINTS", "PROCESS_SCATTER_DATA"}

Success(r) == [success |-> TRUE, result |-> r]
Failure(e) == [success |-> FALSE, error |-> e]

\* dataWorker self.onmessage: the set of responses it can post for a message;
\* an exception thrown by the operation is caught and posted as a failure
dataWorkerOnMessage(type, data, config) ==
    IF type = "CALCULATE_STATISTICS" THEN {Success(workerCalculateStatistics(data))}
    ELSE IF type = "DOWNSAMPLE_DATA"
         THEN {Success(r) : r \in workerDownsampleData(data, config.maxPoints, config.method)}
    ELSE IF type = "PROCESS_HISTOGRAM"
         THEN LET h == processHistogramData(data, config.scalingMethod, config.binCount)
              IN IF h.threw THEN {Failure(h.error)} ELSE {Success(h.value)}
    ELSE IF type = "DEDUPLICATE_POINTS"
         THEN {Success(deduplicatePoints(data, config.tolerance))}
    ELSE {Failure("Unknown processing type")}

\* the config fields the handler reads for each message type
ConfigsOf(type) ==
    IF type = "DOWNSAMPLE_DATA" THEN [maxPoints : 0..MaxPoints, method : Methods]
    ELSE IF type = "PROCESS_HISTOGRAM"
         THEN [scalingMethod : ScalingMethods, binCount : 1..MaxBins]
    ELSE IF type = "DEDUPLICATE_POINTS" THEN [tolerance : 0..MaxTol]
    ELSE IF type = "CALCULATE_STATISTICS" THEN {[column |-> "selected"]}
    ELSE {[optimizeData |-> TRUE]}

-----------------------------------------------------------------------------
(* Specification of the engines: a record collection is drawn, then engine *)
(* calls are made on it.                                                   *)

NoCall == [op |-> "none"]

\* the record collections the engines are given: every sequence of at most
\* MaxLen field values, 1..10 and [0, 0, 0, 0, 10]
RecordInputs(data) ==
    \/ \E k \in 0..MaxLen : \E f \in [1..k -> FieldValues] : data = f
    \/ data = OneToTen
    \/ data = FourZerosAndTen

\* the point sequences the engines are given
PointInputs(data) ==
    \E k \in 0..MaxPts : \E xy \in [1..k -> Coords \X Coords] : data = PointsOf(xy)

\* the hook before it is used
HookIdle ==
    /\ kind = "stats"
    /\ workerRef = FALSE
    /\ workerFailed = FALSE
    /\ promiseRef = 0
    /\ calls = <<>>
    /\ reqQueue = <<>>
    /\ respQueue = <<>>
    /\ isProcessing = FALSE
    /\ hookError = "null"

NullData == [by |-> 0, version |-> 0]

\* useAsyncDataProcessing before it is used
ShellIdle ==
    /\ version = 0
    /\ dataLength = 0
    /\ invocations = <<>>
    /\ processedData = NullData
    /\ isLoading = FALSE
    /\ error = "null"

\* useProgressiveRendering not rendered
NotRendered == [mounted |-> FALSE]

\* CSVUploader as it is constructed: the useState initialisers; loaded is
\* the sequence of onDataLoaded calls made and batches the handleFiles calls
\* made, each with its locals (csvFiles, i, allData, hasErrors)
UploaderIdle ==
    [isLoading |-> FALSE, error |-> "null", fileProgress |-> <<>>,
     combinedData |-> <<>>, loaded |-> <<>>, batches |-> <<>>]

UiIdle ==
    /\ progressive = NotRendered
    /\ uploader = UploaderIdle

InitStats ==
    /\ RecordInputs(records)
    /\ points = <<>>
    /\ out = NoCall
    /\ HookIdle
    /\ ShellIdle
    /\ UiIdle

InitReduce ==
    /\ records = <<>>
    /\ PointInputs(points)
    /\ out = NoCall
    /\ HookIdle
    /\ ShellIdle
    /\ UiIdle

InitEngines == InitStats \/ InitReduce

AnalyticsStatistics ==
    /\ out = NoCall
    /\ out' = [op |-> "analytics_stats", result |-> calculateStatistics(records)]
    /\ UNCHANGED <<uiVars, records, points, hookVars, shellVars>>

SyncStatistics ==
    /\ out = NoCall
    /\ out' = [op |-> "sync_stats", result |-> calculateStatisticsSync(records)]
    /\ UNCHANGED <<uiVars, records, points, hookVars, shellVars>>

SyncDownsample ==
    /\ out = NoCall
    /\ \E maxPoints \in 0..MaxPoints, method \in Methods :
        out' = [op |-> "sync_downsample", maxPoints |-> maxPoints, method |-> method,
                result |-> downsampleDataSync(records, maxPoints, method)]
    /\ UNCHANGED <<uiVars, records, points, hookVars, shellVars>>

PercentileRepos ==
    /\ out = NoCall
    /\ \A i \in 1..Len(records) : IsNumber(records[i])
    /\ \E percentiles \in PercentileLists :
        out' = [op |-> "percentile_repos", percentiles |-> percentiles,
                outcome |-> getPercentileRepos(records, percentiles)]
    /\ UNCHANGED <<uiVars, records, points, hookVars, shellVars>>

HistogramData ==
    /\ out = NoCall
    /\ \E scalingMethod \in ScalingMethods, optimizeData \in BOOLEAN :
        out' = [op |-> "histogram", scalingMethod |-> scalingMethod,
                optimizeData |-> optimizeData,
                outcome |-> generateHistogramData(records, scalingMethod, optimizeData)]
    /\ UNCHANGED <<uiVars, records, points, hookVars, shellVars>>

\* a message handled by the worker: statistics, downsampling and histogram on
\* the records, deduplication on the points
WorkerMessage ==
    /\ out = NoCall
    /\ \E type \in MessageTypes :
         \E config \in ConfigsOf(type) :
           LET data == IF type = "DEDUPLICATE_POINTS" THEN points ELSE records
           IN \E response \in dataWorkerOnMessage(type, data, config) :
                out' = [op |-> "worker", type |-> type, config |-> config,
                        response |-> response]
    /\ UNCHANGED <<uiVars, records, points, hookVars, shellVars>>

LTTB ==
    /\ out = NoCall
    /\ \E targetPoints \in 0..MaxTarget :
        out' = [op |-> "lttb", targetPoints |-> targetPoints,
                result |-> downsampleLTTB(points, targetPoints)]
    /\ UNCHANGED <<uiVars, records, points, hookVars, shellVars>>

Deduplicate ==
    /\ out = NoCall
    /\ \E tolerance \in 0..MaxTol :
        out' = [op |-> "deduplicate", tolerance |-> tolerance,
                result |-> deduplicatePoints(points, tolerance)]
    /\ UNCHANGED <<uiVars, records, points, hookVars, shellVars>>

Sample ==
    /\ out = NoCall
    /\ \E sampleSize \in 0..MaxTarget, strategy \in Strategies :
        \E r \in sampleData(points, sampleSize, strategy) :
            out' = [op |-> "sample", sampleSize |-> sampleSize, strategy |-> strategy,
                    result |-> r]
    /\ UNCHANGED <<uiVars, records, points, hookVars, shellVars>>

NextStats ==
    \/ AnalyticsStatistics
    \/ SyncStatistics
    \/ SyncDownsample
    \/ PercentileRepos
    \/ HistogramData
    \/ WorkerMessage

NextReduce ==
    \/ LTTB
    \/ Deduplicate
    \/ WorkerMessage

\* engine calls on a record collection
SpecStats == InitStats /\ [][NextStats]_vars

\* shape-preserving downsampling and deduplication of a point sequence
SpecReduce == InitReduce /\ [][NextReduce]_vars

\* every engine, on either input
SpecEngines == InitEngines /\ [][NextStats \/ LTTB \/ Deduplicate \/ Sample]_vars

-----------------------------------------------------------------------------
(* Specification of systematic sampling: a record collection is drawn and  *)
(* one of the four implementations is called on it.                        *)

\* lib/dataOptimization sampleData with the strategy 'systematic'
SampleSystematic ==
    /\ out = NoCall
    /\ \E sampleSize \in 0..MaxTarget :
        \E r \in sampleData(records, sampleSize, "systematic") :
            out' = [op |-> "lib_systematic", size |-> sampleSize, result |-> r]
    /\ UNCHANGED <<uiVars, records, points, hookVars, shellVars>>

\* dataWorker downsampleData with the method 'systematic'
WorkerDownsample ==
    /\ out = NoCall
    /\ \E maxPoints \in 0..MaxTarget :
        \E r \in workerDownsampleData(records, maxPoints, "systematic") :
            out' = [op |-> "worker_systematic", size |-> maxPoints, result |-> r]
    /\ UNCHANGED <<uiVars, records, points, hookVars, shellVars>>

\* useWebWorker downsampleDataSync
SyncSystematic ==
    /\ out = NoCall
    /\ \E maxPoints \in 0..MaxTarget :
        out' = [op |-> "sync_systematic", size |-> maxPoints,
                result |-> downsampleDataSync(records, maxPoints, "systematic")]
    /\ UNCHANGED <<uiVars, records, points, hookVars, shellVars>>

\* a render of useDownsampling
UseDownsampling ==
    /\ out = NoCall
    /\ \E maxPoints \in 0..MaxTarget, enabled \in BOOLEAN :
        out' = [op |-> "use_downsampling", size |-> maxPoints, enabled |-> enabled,
                result |-> useDownsampling(records, maxPoints, enabled)]
    /\ UNCHANGED <<uiVars, records, points, hookVars, shellVars>>

NextSampling ==
    \/ SampleSystematic
    \/ WorkerDownsample
    \/ SyncSystematic
    \/ UseDownsampling

SpecSampling == InitStats /\ [][NextSampling]_vars

-----------------------------------------------------------------------------
(* Specification of the scaling transform: a sequence of numbers is drawn  *)
(* (the integers that fill the significand), then applyScaling is called.  *)

ScalingInputs(data) ==
    \E k \in 0..MaxLen : \E f \in [1..k -> 0..(2^MantissaBits - 1)] :
        data = [i \in 1..k |-> Num(f[i])]

\* the numbers of a record sequence
FlValues(data) == [i \in 1..Len(data) |-> FlInt(data[i].val)]

InitScaling ==
    /\ ScalingInputs(records)
    /\ points = <<>>
    /\ out = NoCall
    /\ HookIdle
    /\ ShellIdle
    /\ UiIdle

\* applyScaling(values, method); values is the caller's array after the call:
\* the code writes to no element of it and sorts a copy
ApplyScaling ==
    /\ out = NoCall
    /\ \E method \in ScalingMethods :
        out' = [op |-> "scaling", method |-> method,
                values |-> FlValues(records),
                result |-> applyScalingRounded(FlValues(records), method)]
    /\ UNCHANGED <<uiVars, records, points, hookVars, shellVars>>

NextScaling == ApplyScaling

SpecScaling == InitScaling /\ [][NextScaling]_vars

-----------------------------------------------------------------------------
(* AgeVsSizeScatter.processScatterData, the main-thread reduction.  points *)
(* is the result of baseProcessing.  The loops of downsampleLTTB,          *)
(* deduplicatePoints and systematicSample run for thousands of iterations  *)
(* here, so the call is followed through its loops, LoopSlice iterations   *)
(* at a time: out holds the position in the loop and what it has built.    *)

EarlyReturnLimit == 1000
LargeThreshold == 10000
LargeTarget == 1500
MediumThreshold == 5000
MediumTarget == 2000
DedupThreshold == 2000
ScatterTolerance == 2
SampleThreshold == 2000
SampleTarget == 2000

\* LTTB to MediumTarget points whatever the size
scatterStrategyOneTarget(n, optimizeData) ==
    IF ~optimizeData \/ n <= EarlyReturnLimit THEN [kind |-> "none", target |-> n]
    ELSE IF n > MediumThreshold THEN [kind |-> "lttb", target |-> MediumTarget]
    ELSE IF n > DedupThreshold THEN [kind |-> "dedup", target |-> SampleTarget]
    ELSE [kind |-> "none", target |-> n]

\* the branch processScatterData takes for processedData.length = n
scatterStrategy(n, optimizeData) ==
    IF ~optimizeData \/ n <= EarlyReturnLimit THEN [kind |-> "none", target |-> n]
    ELSE IF n > LargeThreshold THEN [kind |-> "lttb", target |-> LargeTarget]
    ELSE IF n > MediumThreshold THEN [kind |-> "lttb", target |-> MediumTarget]
    ELSE IF n > DedupThreshold THEN [kind |-> "dedup", target |-> SampleTarget]
    ELSE [kind |-> "none", target |-> n]

\* the i-th point of a scatter input
ScatterPoint(i, spacing) == [x |-> spacing * i, y |-> i % 3, id |-> i]

ScatterSizes ==
    {0, EarlyReturnLimit, EarlyReturnLimit + 1, DedupThreshold, DedupThreshold + 1,
     MediumThreshold, MediumThreshold + 1, LargeThreshold, LargeThreshold + 1,
     ScenarioPoints}

\* a scatter input of n points
ScatterData(n, spacing) == SubSeq([i \in 1..n |-> ScatterPoint(i, spacing)], 1, n)

\* the inputs: coincident x (spacing 0) at every size, spread x at every size
\* but those of the deduplication range above its lower end, where the
\* deduplication of n spread points takes about n^2 / 2 distance tests
ScatterInputs ==
    {inp \in [n : ScatterSizes, spacing : 0..MaxSpacing] :
        inp.spacing = 0 \/ inp.n <= DedupThreshold + 1 \/ inp.n > MediumThreshold}

InitScatter ==
    /\ records = <<>>
    /\ points = <<>>
    /\ out = NoCall
    /\ HookIdle
    /\ ShellIdle
    /\ UiIdle

\* the result of baseProcessing in the call out describes
ScatterProcessed == ScatterData(out.input.n, out.input.spacing)

ScatterDone(input, optimizeData, stages, result) ==
    [op |-> "scatter", pc |-> "done", input |-> input, optimizeData |-> optimizeData,
     stages |-> stages, result |-> result]

\* processScatterData from `let processedData = baseProcessing()` to the
\* entry of the first loop
ScatterBegin ==
    /\ out = NoCall
    /\ \E input \in ScatterInputs, optimizeData \in BOOLEAN :
         LET base == ScatterData(input.n, input.spacing)
             st == scatterStrategy(input.n, optimizeData)
         IN out' =
              IF st.kind = "none" THEN ScatterDone(input, optimizeData, <<>>, base)
              ELSE IF st.kind = "lttb" THEN
                   \* downsampleLTTB(processedData, target): the input is longer
                   \* than the target, the target at least 3
                   [op |-> "scatter", pc |-> "lttb", input |-> input,
                    optimizeData |-> optimizeData,
                    targetPoints |-> st.target, i |-> 1, downsampled |-> <<base[1]>>]
              ELSE \* deduplicatePoints(processedData, 2) on a non-empty input
                   [op |-> "scatter", pc |-> "dedup", input |-> input,
                    optimizeData |-> optimizeData,
                    i |-> 2, deduplicated |-> <<base[1]>>]
    /\ UNCHANGED <<uiVars, records, points, hookVars, shellVars>>

\* LoopSlice iterations of the loop of downsampleLTTB and, after the last,
\* the push of the last point and the return
ScatterLTTB ==
    /\ out.op = "scatter"
    /\ out.pc = "lttb"
    /\ LET base == ScatterProcessed
           stop == Min2(out.i + LoopSlice, out.targetPoints - 1)
           downsampled ==
               LTTBLoop(base, out.targetPoints, out.i, stop, out.downsampled)
       IN out' = IF stop = out.targetPoints - 1
                 THEN ScatterDone(out.input, out.optimizeData, <<"lttb">>,
                                  Append(downsampled, base[out.input.n]))
                 ELSE [out EXCEPT !.i = stop, !.downsampled = downsampled]
    /\ UNCHANGED <<uiVars, records, points, hookVars, shellVars>>

\* LoopSlice iterations of the loop of deduplicatePoints and, after the last,
\* `if (processedData.length > 2000)` and the entry of sampleData's loop
ScatterDedup ==
    /\ out.op = "scatter"
    /\ out.pc = "dedup"
    /\ LET stop == Min2(out.i + LoopSlice - 1, out.input.n)
           deduplicated ==
               DedupLoop(ScatterProcessed, ScatterTolerance, out.i, stop, out.deduplicated)
       IN out' = IF stop < out.input.n
                 THEN [out EXCEPT !.i = stop + 1, !.deduplicated = deduplicated]
                 ELSE IF Len(deduplicated) > SampleThreshold
                 THEN \* sampleData(processedData, 2000, 'systematic') on more
                      \* than 2000 points: systematicSample
                      [op |-> "scatter", pc |-> "sample", input |-> out.input,
                       optimizeData |-> out.optimizeData,
                       data |-> deduplicated,
                       step |-> StepOf(Len(deduplicated), SampleTarget),
                       i |-> 0, sampled |-> <<>>]
                 ELSE ScatterDone(out.input, out.optimizeData, <<"dedup">>, deduplicated)
    /\ UNCHANGED <<uiVars, records, points, hookVars, shellVars>>

\* LoopSlice iterations of the loop of systematicSample and, after the last,
\* the return
ScatterSample ==
    /\ out.op = "scatter"
    /\ out.pc = "sample"
    /\ LET stop == Len(out.sampled) + LoopSlice
           sampled == SampleLoop(out.data, SampleTarget, out.step, out.i, stop, out.sampled)
           i == out.i + out.step * (Len(sampled) - Len(out.sampled))
       IN out' = IF i < Len(out.data) /\ Len(sampled) < SampleTarget
                 THEN [out EXCEPT !.i = i, !.sampled = sampled]
                 ELSE ScatterDone(out.input, out.optimizeData, <<"dedup", "sample">>, sampled)
    /\ UNCHANGED <<uiVars, records, points, hookVars, shellVars>>

NextScatter ==
    \/ ScatterBegin
    \/ ScatterLTTB
    \/ ScatterDedup
    \/ ScatterSample

SpecScatter == InitScatter /\ [][NextScatter]_vars

-----------------------------------------------------------------------------
(* Specification of the percentile selector: a collection of records with  *)
(* numeric sizes is drawn, then getPercentileRepos is called or            *)
(* SizeAnalysis is rendered.  records is the caller's array after the      *)
(* call.                                                                   *)

SizeModuli == {37, 101}

ScenarioRecords(m, q) == [i \in 1..SelectorRecords |-> Num((i * m) % q)]

SizeInputs(data) ==
    \/ \E k \in 0..MaxLen : \E f \in [1..k -> {Num(v) : v \in (0 - MaxNeg)..MaxVal}] :
          data = f
    \/ \E m \in 1..MaxMult, q \in SizeModuli : data = ScenarioRecords(m, q)

\* percentiles asked for, 0 and 150 among them: their indices are clamped
SelectorPercentiles ==
    {<<>>, <<50>>, <<10, 90>>, <<0, 100>>, <<150, 25>>, <<90, 10, 90>>}

InitPercentile ==
    /\ SizeInputs(records)
    /\ points = <<>>
    /\ out = NoCall
    /\ HookIdle
    /\ ShellIdle
    /\ UiIdle

\* [...data].sort(...) sorts a copy: the array of the caller is not written
GetPercentileRepos ==
    /\ out = NoCall
    /\ \E percentiles \in SelectorPercentiles :
        out' = [op |-> "percentile_repos", input |-> records,
                percentiles |-> percentiles,
                outcome |-> getPercentileRepos(records, percentiles)]
    /\ records' = records
    /\ UNCHANGED <<uiVars, points, hookVars, shellVars>>

RenderSizeAnalysis ==
    /\ out = NoCall
    /\ out' = [op |-> "size_analysis", input |-> records,
               result |-> SizeAnalysis(records)]
    /\ records' = records
    /\ UNCHANGED <<uiVars, points, hookVars, shellVars>>

NextPercentile == GetPercentileRepos \/ RenderSizeAnalysis

SpecPercentile == InitPercentile /\ [][NextPercentile]_vars

-----------------------------------------------------------------------------
(* useProgressiveRendering.  progressive holds the props of the last       *)
(* render (data, batchSize), the two pieces of state, the interval timer    *)
(* with the data.length and batchSize its callback closed over, and        *)
(* whether the effect of the last render has still to run.  changes counts *)
(* the renders with new props since the mount.                             *)

\* the sequence given at the render after v changes: n items
ProgressiveData(v, n) == [i \in 1..n |-> [version |-> v, index |-> i]]

\* the whole sequence at the first tick
nextAll(prev, batchSize, length) == length

\* const next = Math.min(prev + batchSize, data.length)
nextRenderedCount(prev, batchSize, length) == Min2(prev + batchSize, length)

NoTimer == [active |-> FALSE, length |-> 0, batchSize |-> 0]

\* the first render: the useState initialisers; the effect has not run yet
FirstRender(d, batchSize) ==
    [mounted |-> TRUE, data |-> d, batchSize |-> batchSize,
     renderedCount |-> Min2(batchSize, Len(d)),
     isComplete |-> Len(d) <= batchSize,
     timer |-> NoTimer, effectPending |-> TRUE, changes |-> 0]

\* data.slice(0, renderedCount)
visibleData == SubSeq(progressive.data, 1, Min2(progressive.renderedCount, Len(progressive.data)))

totalCount == Len(progressive.data)

\* progress: data.length > 0 ? (renderedCount / data.length) * 100 : 100, kept
\* in units of 1 / progressDen
progressDen == IF totalCount > 0 THEN totalCount ELSE 1

progressValue == IF totalCount > 0 THEN progressive.renderedCount * 100 ELSE 100

InitProgressive ==
    /\ records = <<>>
    /\ points = <<>>
    /\ out = NoCall
    /\ HookIdle
    /\ ShellIdle
    /\ uploader = UploaderIdle
    /\ \E n \in 0..MaxSeq, batchSize \in 1..MaxBatch :
          progressive = FirstRender(ProgressiveData(0, n), batchSize)

\* the effect of the last render: the cleanup of the effect before it clears
\* the timer, then the body runs with the props of the last render
RunEffect ==
    /\ progressive.mounted
    /\ progressive.effectPending
    /\ LET length == Len(progressive.data)
           batchSize == progressive.batchSize
       IN IF length <= batchSize
          THEN progressive' = [progressive EXCEPT !.renderedCount = length,
                                                  !.isComplete = TRUE,
                                                  !.timer = NoTimer,
                                                  !.effectPending = FALSE]
          ELSE progressive' = [progressive EXCEPT !.renderedCount = batchSize,
                                                  !.isComplete = FALSE,
                                                  !.timer = [active |-> TRUE, length |-> length,
                                                             batchSize |-> batchSize],
                                                  !.effectPending = FALSE]
    /\ UNCHANGED <<fnVars, hookVars, shellVars, uploader>>

\* the interval callback and the render it causes
IntervalTick ==
    /\ progressive.mounted
    /\ progressive.timer.active
    /\ LET next == nextRenderedCount(progressive.renderedCount,
                                     progressive.timer.batchSize,
                                     progressive.timer.length)
       IN IF next = progressive.timer.length
          THEN progressive' = [progressive EXCEPT !.renderedCount = next,
                                                  !.isComplete = TRUE,
                                                  !.timer = NoTimer]
          ELSE progressive' = [progressive EXCEPT !.renderedCount = next]
    /\ UNCHANGED <<fnVars, hookVars, shellVars, uploader>>

\* a render with new props; the effect runs again when data.length or
\* batchSize is not what it was
ChangeProps ==
    /\ progressive.mounted
    /\ ~progressive.effectPending
    /\ progressive.changes < MaxChanges
    /\ \E n \in 0..MaxSeq, batchSize \in 1..MaxBatch :
          progressive' = [progressive EXCEPT
              !.data = ProgressiveData(progressive.changes + 1, n),
              !.batchSize = batchSize,
              !.effectPending = (n # Len(progressive.data)
                                   \/ batchSize # progressive.batchSize),
              !.changes = progressive.changes + 1]
    /\ UNCHANGED <<fnVars, hookVars, shellVars, uploader>>

\* the cleanup of the effect at unmount
UnmountProgressive ==
    /\ progressive.mounted
    /\ progressive' = [progressive EXCEPT !.mounted = FALSE, !.timer = NoTimer,
                                          !.effectPending = FALSE]
    /\ UNCHANGED <<fnVars, hookVars, shellVars, uploader>>

NextProgressive == RunEffect \/ IntervalTick \/ ChangeProps \/ UnmountProgressive

\* effects run after the render that scheduled them, and an interval that
\* is not cleared keeps firing
SpecProgressive ==
    /\ InitProgressive
    /\ [][NextProgressive]_vars
    /\ WF_vars(RunEffect)
    /\ WF_vars(IntervalTick)

-----------------------------------------------------------------------------
(* CSVUploader.  A file is [name, csv, ok, rows]: csv tells whether its    *)
(* name ends with '.csv', ok whether file.text() and parseCSV succeed on   *)
(* it and rows how many records parseCSV returns.  handleFiles is async:   *)
(* one action runs it up to its next await file.text().                    *)

FileKinds ==
    {[csv |-> FALSE, ok |-> TRUE, rows |-> 0], [csv |-> TRUE, ok |-> FALSE, rows |-> 0]}
        \cup {[csv |-> TRUE, ok |-> TRUE, rows |-> k] : k \in 0..MaxRows}

\* the FileList of the b-th handleFiles call
FilesOf(b, kinds) ==
    [j \in 1..Len(kinds) |->
        [name |-> <<b, j>>, csv |-> kinds[j].csv, ok |-> kinds[j].ok, rows |-> kinds[j].rows]]

IsCsv(file) == file.csv

\* parseCSV(await file.text()) of a file it accepts
parseCSV(file) == [j \in 1..file.rows |-> [file |-> file.name, row |-> j]]

\* csvFiles.map(file => ({ name: file.name, status: 'pending' }))
initialProgress(csvFiles) ==
    [k \in 1..Len(csvFiles) |->
        [name |-> csvFiles[k].name, status |-> "pending", recordCount |-> 0]]

\* prev.map((item, index) => index === i ? { ...item, status } : item), i from 1
SetStatus(prev, i, status) ==
    [k \in 1..Len(prev) |-> IF k = i THEN [prev[k] EXCEPT !.status = status] ELSE prev[k]]

\* the same with status: 'completed' and recordCount: data.length
SetCompleted(prev, i, count) ==
    [k \in 1..Len(prev) |->
        IF k = i THEN [prev[k] EXCEPT !.status = "completed", !.recordCount = count]
        ELSE prev[k]]

InitUploader ==
    /\ records = <<>>
    /\ points = <<>>
    /\ out = NoCall
    /\ HookIdle
    /\ ShellIdle
    /\ UiIdle

\* handleFiles(files) up to its first await
handleFiles(files) ==
    LET csvFiles == SelectSeq(files, IsCsv)
    IN IF Len(csvFiles) = 0
       THEN uploader' = [uploader EXCEPT
                !.error = "Please upload at least one CSV file",
                !.batches = Append(@, [csvFiles |-> csvFiles, i |-> 0, allData |-> <<>>,
                                       hasErrors |-> FALSE, pc |-> "returned"])]
       ELSE uploader' = [uploader EXCEPT
                !.isLoading = TRUE,
                !.error = "null",
                !.fileProgress = SetStatus(initialProgress(csvFiles), 1, "processing"),
                !.batches = Append(@, [csvFiles |-> csvFiles, i |-> 1, allData |-> <<>>,
                                       hasErrors |-> FALSE, pc |-> "reading"])]

\* onDrop: the drop zone takes files whether or not a batch is being processed
HandleDrop ==
    /\ Len(uploader.batches) < MaxBatches
    /\ \E n \in 1..MaxFiles : \E kinds \in [1..n -> FileKinds] :
          handleFiles(FilesOf(Len(uploader.batches) + 1, kinds))
    /\ UNCHANGED <<fnVars, hookVars, shellVars, progressive>>

\* onChange of the file input, opened by the button that is disabled while
\* isLoading
HandleFileInput ==
    /\ Len(uploader.batches) < MaxBatches
    /\ ~uploader.isLoading
    /\ \E n \in 1..MaxFiles : \E kinds \in [1..n -> FileKinds] :
          handleFiles(FilesOf(Len(uploader.batches) + 1, kinds))
    /\ UNCHANGED <<fnVars, hookVars, shellVars, progressive>>

\* the continuation of the b-th handleFiles call after await file.text():
\* the rest of iteration i, then the next iteration up to its await, or the
\* code after the loop and the finally block
FileRead(b) ==
    /\ b \in 1..Len(uploader.batches)
    /\ uploader.batches[b].pc = "reading"
    /\ LET batch == uploader.batches[b]
           file == batch.csvFiles[batch.i]
           data == IF file.ok THEN parseCSV(file) ELSE <<>>
           allData == batch.allData \o data
           hasErrors == batch.hasErrors \/ ~file.ok
           progress == IF file.ok
                       THEN SetCompleted(uploader.fileProgress, batch.i, Len(data))
                       ELSE SetStatus(uploader.fileProgress, batch.i, "error")
       IN IF batch.i < Len(batch.csvFiles)
          THEN uploader' = [uploader EXCEPT
                   !.fileProgress = SetStatus(progress, batch.i + 1, "processing"),
                   !.batches[b] = [batch EXCEPT !.i = batch.i + 1, !.allData = allData,
                                                !.hasErrors = hasErrors]]
          ELSE uploader' = [uploader EXCEPT
                   !.fileProgress = progress,
                   !.combinedData = IF Len(allData) > 0 THEN allData ELSE @,
                   !.loaded = IF Len(allData) > 0
                              THEN Append(@, [batch |-> b, data |-> allData]) ELSE @,
                   !.error = IF Len(allData) = 0 /\ hasErrors
                             THEN "No valid data could be loaded from the uploaded files"
                             ELSE @,
                   !.isLoading = FALSE,
                   !.batches[b] = [batch EXCEPT !.i = batch.i + 1, !.allData = allData,
                                                !.hasErrors = hasErrors, !.pc = "done"]]
    /\ UNCHANGED <<fnVars, hookVars, shellVars, progressive>>

\* removeFile(index): its button is rendered when isLoading is false
RemoveFile ==
    /\ ~uploader.isLoading
    /\ \E index \in 1..Len(uploader.fileProgress) :
          uploader' = [uploader EXCEPT !.fileProgress =
              SubSeq(@, 1, index - 1) \o SubSeq(@, index + 1, Len(@))]
    /\ UNCHANGED <<fnVars, hookVars, shellVars, progressive>>

\* clearAll: its button is rendered when isLoading is false and files are listed
ClearAll ==
    /\ ~uploader.isLoading
    /\ Len(uploader.fileProgress) > 0
    /\ uploader' = [uploader EXCEPT !.fileProgress = <<>>, !.combinedData = <<>>,
                                    !.error = "null"]
    /\ UNCHANGED <<fnVars, hookVars, shellVars, progressive>>

NextUploader ==
    \/ HandleDrop
    \/ HandleFileInput
    \/ \E b \in 1..MaxBatches : FileRead(b)
    \/ RemoveFile
    \/ ClearAll

SpecUploader == InitUploader /\ [][NextUploader]_vars

-----------------------------------------------------------------------------
(* useWebWorker and its callers.  One action per macrotask: a handler runs  *)
(* together with the promise continuations (microtasks) it releases, so the *)
(* caller's catch and synchronous fallback belong to the handler that       *)
(* rejects its promise.                                                     *)

Kinds == {"stats", "downsample", "scatter"}

\* the record collections given to the hooks: 1..k
DataPool == {[i \in 1..k |-> Num(i)] : k \in 1..MaxData}

\* processData(type, data, config) as each caller issues it
TypeOf(k) ==
    IF k = "stats" THEN "CALCULATE_STATISTICS"
    ELSE IF k = "downsample" THEN "DOWNSAMPLE_DATA"
    ELSE "PROCESS_SCATTER_DATA"

HookConfigs(k) ==
    IF k = "downsample" THEN [maxPoints : {1}, method : {"systematic", "random"}]
    ELSE ConfigsOf(TypeOf(k))

\* AgeVsSizeScatter.processScatterData, the main-thread path: kept as an
\* opaque function of the records it is computed from
scatterMainThread(data) == [mainThread |-> TRUE, of |-> data]

\* the synchronous computation each caller falls back to
SyncFallback(k, data, config) ==
    IF k = "stats" THEN calculateStatisticsSync(data)
    ELSE IF k = "downsample" THEN downsampleDataSync(data, config.maxPoints, config.method)
    ELSE scatterMainThread(data)

\* Array.isArray(processedData): the operations whose result is an array
IsArrayResult(type) == type \in {"DOWNSAMPLE_DATA", "PROCESS_HISTOGRAM", "DEDUPLICATE_POINTS"}

Awaiting == [done |-> FALSE]
Ret(v, fellBack) == [done |-> TRUE, value |-> v, fellBack |-> fellBack]

\* the caller's continuation once its promise is resolved with v:
\* useWorkerStatistics / useWorkerDownsampling return it; processScatterData
\* returns it when it is an array and goes on to the main thread otherwise
AfterResolve(c, v) ==
    IF kind = "scatter" /\ ~IsArrayResult(TypeOf(kind))
    THEN Ret(scatterMainThread(c.data), TRUE)
    ELSE Ret(v, FALSE)

\* the caller's continuation once its promise is rejected: the catch block
AfterReject(c) == Ret(SyncFallback(kind, c.data, c.config), TRUE)

Resolve(c, v) ==
    [c EXCEPT !.status = "resolved", !.value = v, !.ret = AfterResolve(c, v)]

Reject(c, reason) ==
    [c EXCEPT !.status = "rejected", !.reason = reason, !.ret = AfterReject(c)]

InitHook ==
    /\ kind \in Kinds
    /\ workerRef \in BOOLEAN
    /\ workerFailed = FALSE
    /\ promiseRef = 0
    /\ calls = <<>>
    /\ reqQueue = <<>>
    /\ respQueue = <<>>
    /\ isProcessing = FALSE
    /\ hookError = "null"
    /\ records = <<>> /\ points = <<>> /\ out = NoCall
    /\ ShellIdle
    /\ UiIdle

NewCall(data, config) ==
    [data |-> data, config |-> config, status |-> "pending", value |-> <<>>,
     reason |-> "", timer |-> "none", ret |-> Awaiting]

\* processData when workerRef.current is null: it throws, the caller catches
CallNoWorker ==
    /\ Len(calls) < MaxCalls
    /\ ~workerRef
    /\ \E data \in DataPool, config \in HookConfigs(kind) :
         calls' = Append(calls, Reject(NewCall(data, config), "Web Worker not available"))
    /\ hookError' = "null"
    /\ UNCHANGED <<uiVars, fnVars, shellVars, kind, workerRef, workerFailed, promiseRef, reqQueue, respQueue, isProcessing>>

\* processData with a worker: promiseRef is overwritten, the message posted
\* and the 30 s timer started
HookCallPost(data) ==
    /\ Len(calls) < MaxCalls
    /\ workerRef
    /\ \E config \in HookConfigs(kind) :
         calls' = Append(calls, [NewCall(data, config) EXCEPT !.timer = "armed"])
    /\ hookError' = "null"
    /\ isProcessing' = TRUE
    /\ promiseRef' = Len(calls) + 1
    /\ reqQueue' = Append(reqQueue, Len(calls) + 1)
    /\ UNCHANGED <<kind, workerRef, workerFailed, respQueue>>

CallPost ==
    /\ \E data \in DataPool : HookCallPost(data)
    /\ UNCHANGED <<uiVars, fnVars, shellVars>>

\* the worker handles its oldest message and posts the response
WorkerHandle ==
    /\ reqQueue # <<>>
    /\ ~workerFailed
    /\ LET c == calls[Head(reqQueue)]
       IN \E response \in dataWorkerOnMessage(TypeOf(kind), c.data, c.config) :
            respQueue' = Append(respQueue, [req |-> Head(reqQueue), response |-> response])
    /\ reqQueue' = Tail(reqQueue)
    /\ UNCHANGED <<uiVars, fnVars, shellVars, kind, workerRef, workerFailed, promiseRef, calls, isProcessing, hookError>>

\* workerRef.current.onmessage
HookOnMessage ==
    /\ respQueue # <<>>
    /\ LET response == Head(respQueue).response
       IN calls' =
            IF promiseRef = 0 THEN calls
            ELSE IF response.success
                 THEN [calls EXCEPT ![promiseRef] = Resolve(@, response.result)]
                 ELSE [calls EXCEPT ![promiseRef] = Reject(@, response.error)]
    /\ promiseRef' = 0
    /\ isProcessing' = FALSE
    /\ respQueue' = Tail(respQueue)
    /\ UNCHANGED <<kind, workerRef, workerFailed, reqQueue, hookError>>

OnMessage ==
    /\ HookOnMessage
    /\ UNCHANGED <<uiVars, fnVars, shellVars>>

\* workerRef.current.onerror: the worker's error event
HookOnError ==
    /\ workerRef
    /\ ~workerFailed
    /\ workerFailed' = TRUE
    /\ calls' = IF promiseRef = 0 THEN calls
                ELSE [calls EXCEPT ![promiseRef] = Reject(@, "Worker error event")]
    /\ promiseRef' = 0
    /\ hookError' = "Worker error"
    /\ isProcessing' = FALSE
    /\ UNCHANGED <<kind, workerRef, reqQueue, respQueue>>

OnError ==
    /\ HookOnError
    /\ UNCHANGED <<uiVars, fnVars, shellVars>>

\* the setTimeout callback of call i, 30 s after its dispatch; the timers have
\* the same delay, so they fire in the order of the calls
HookTimeout(i) ==
    /\ i \in 1..Len(calls)
    /\ calls[i].timer = "armed"
    /\ \A j \in 1..(i - 1) : calls[j].timer # "armed"
    /\ calls' =
         IF promiseRef = 0 THEN [calls EXCEPT ![i].timer = "fired"]
         ELSE [[calls EXCEPT ![promiseRef] = Reject(@, "Worker timeout")]
                  EXCEPT ![i].timer = "fired"]
    /\ promiseRef' = 0
    /\ isProcessing' = IF promiseRef = 0 THEN isProcessing ELSE FALSE
    /\ UNCHANGED <<kind, workerRef, workerFailed, reqQueue, respQueue, hookError>>

Timeout(i) ==
    /\ HookTimeout(i)
    /\ UNCHANGED <<uiVars, fnVars, shellVars>>

NextHook ==
    \/ CallNoWorker
    \/ CallPost
    \/ WorkerHandle
    \/ OnMessage
    \/ OnError
    \/ \E i \in 1..MaxCalls : Timeout(i)

\* one useWebWorker instance, its worker and its caller
SpecHook == InitHook /\ [][NextHook]_vars

-----------------------------------------------------------------------------
(* useAsyncDataProcessing.  A processor's result is [by, version]: by is   *)
(* the invocation that produced it and version the render whose data and   *)
(* dependencies the processor that ran had closed over.  A synchronous     *)
(* processor is one whose completion follows its start with nothing in     *)
(* between.                                                                *)

\* the body of processData up to the setTimeout, for the data.length the
\* callback closed over
Invoke(len) ==
    IF len = 0
    THEN /\ processedData' = NullData
         /\ isLoading' = FALSE
         /\ invocations' = Append(invocations, [pc |-> "done", outcome |-> "empty", version |-> version'])
         /\ UNCHANGED error
    ELSE /\ isLoading' = TRUE
         /\ error' = "null"
         /\ invocations' = Append(invocations, [pc |-> "timer", outcome |-> "none", version |-> version'])
         /\ UNCHANGED processedData

\* the state after the first render and its effect, which calls processData
InitShell ==
    /\ version = 0
    /\ dataLength \in 0..MaxDataLen
    /\ invocations =
         IF dataLength = 0 THEN <<[pc |-> "done", outcome |-> "empty", version |-> 0]>>
         ELSE <<[pc |-> "timer", outcome |-> "none", version |-> 0]>>
    /\ processedData = NullData
    /\ isLoading = (dataLength # 0)
    /\ error = "null"
    /\ records = <<>> /\ points = <<>> /\ out = NoCall
    /\ HookIdle
    /\ UiIdle

\* a dependency changes: re-render, processData is a new callback, the effect calls it
ChangeDeps ==
    /\ Len(invocations) < MaxInvocations
    /\ version < MaxVersion
    /\ version' = version + 1
    /\ Invoke(dataLength)
    /\ UNCHANGED <<uiVars, fnVars, hookVars, dataLength>>

\* the record collection is replaced: the processor closes over the new one;
\* the effect calls processData only when data.length changed
ReplaceData ==
    /\ Len(invocations) < MaxInvocations
    /\ version < MaxVersion
    /\ version' = version + 1
    /\ \E len \in 0..MaxDataLen :
         /\ dataLength' = len
         /\ IF len # dataLength THEN Invoke(len)
            ELSE UNCHANGED <<invocations, processedData, isLoading, error>>
    /\ UNCHANGED <<uiVars, fnVars, hookVars>>

\* reprocess()
Reprocess ==
    /\ Len(invocations) < MaxInvocations
    /\ version' = version
    /\ Invoke(dataLength)
    /\ UNCHANGED <<uiVars, fnVars, hookVars, dataLength>>

\* the continuation of processData after the awaited promise settles:
\* setProcessedData(result) or setError(err), then finally setIsLoading(false)
Settle(i, ok, v) ==
    /\ processedData' = IF ok THEN [by |-> i, version |-> v] ELSE processedData
    /\ error' = IF ok THEN error ELSE "Processing failed"
    /\ isLoading' = FALSE

\* the setTimeout callback of the oldest waiting invocation (the delays are
\* equal) calls processorRef.current(), which returns or throws at once
TimerFireSync(i) ==
    /\ i \in 1..Len(invocations)
    /\ invocations[i].pc = "timer"
    /\ \A j \in 1..(i - 1) : invocations[j].pc # "timer"
    /\ \E ok \in BOOLEAN :
         /\ invocations' = [invocations EXCEPT ![i] =
               [pc |-> "done", outcome |-> IF ok THEN "value" ELSE "error", version |-> version]]
         /\ Settle(i, ok, version)
    /\ UNCHANGED <<uiVars, fnVars, hookVars, version, dataLength>>

\* the same callback with a processor that awaits (a worker round trip)
TimerFireAsync(i) ==
    /\ i \in 1..Len(invocations)
    /\ invocations[i].pc = "timer"
    /\ \A j \in 1..(i - 1) : invocations[j].pc # "timer"
    /\ invocations' = [invocations EXCEPT ![i] =
          [pc |-> "running", outcome |-> "none", version |-> version]]
    /\ UNCHANGED <<uiVars, fnVars, hookVars, version, dataLength, processedData, isLoading, error>>

\* an awaiting processor returns or throws
Complete(i) ==
    /\ i \in 1..Len(invocations)
    /\ invocations[i].pc = "running"
    /\ \E ok \in BOOLEAN :
         /\ invocations' = [invocations EXCEPT ![i].pc = "done",
                                               ![i].outcome = IF ok THEN "value" ELSE "error"]
         /\ Settle(i, ok, invocations[i].version)
    /\ UNCHANGED <<uiVars, fnVars, hookVars, version, dataLength>>

NextShell ==
    \/ ChangeDeps
    \/ ReplaceData
    \/ Reprocess
    \/ \E i \in 1..MaxInvocations : TimerFireSync(i)
    \/ \E i \in 1..MaxInvocations : TimerFireAsync(i)
    \/ \E i \in 1..MaxInvocations : Complete(i)

\* one useAsyncDataProcessing instance and its processor
SpecShell == InitShell /\ [][NextShell]_vars

-----------------------------------------------------------------------------
(* AgeVsSizeScatter: useAsyncDataProcessing whose processor is              *)
(* processScatterData, which awaits useWebWorker.processData when           *)
(* enableWebWorker is on and the collection is large, and computes on the   *)
(* main thread otherwise and when the worker call fails.  An invocation     *)
(* that awaits the worker holds the call it made in its field call.         *)

InitScatterShell ==
    /\ version = 0
    /\ dataLength \in 0..MaxDataLen
    /\ invocations =
         IF dataLength = 0 THEN <<[pc |-> "done", outcome |-> "empty", version |-> 0]>>
         ELSE <<[pc |-> "timer", outcome |-> "none", version |-> 0]>>
    /\ processedData = NullData
    /\ isLoading = (dataLength # 0)
    /\ error = "null"
    /\ kind = "scatter"
    /\ workerRef = TRUE
    /\ workerFailed = FALSE
    /\ promiseRef = 0
    /\ calls = <<>>
    /\ reqQueue = <<>>
    /\ respQueue = <<>>
    /\ isProcessing = FALSE
    /\ hookError = "null"
    /\ records = <<>> /\ points = <<>> /\ out = NoCall
    /\ UiIdle

\* the setTimeout callback of the oldest waiting invocation calls
\* processScatterData, which calls workerProcess and awaits its promise
TimerFireWorker(i) ==
    /\ i \in 1..Len(invocations)
    /\ invocations[i].pc = "timer"
    /\ \A j \in 1..(i - 1) : invocations[j].pc # "timer"
    /\ HookCallPost([k \in 1..dataLength |-> Num(k)])
    /\ invocations' = [invocations EXCEPT ![i] =
          [pc |-> "running", outcome |-> "none", version |-> version,
           call |-> Len(calls) + 1]]
    /\ UNCHANGED <<uiVars, fnVars, version, dataLength, processedData, isLoading, error>>

\* the invocation whose worker call the handler has just settled:
\* processScatterData returns (the worker's array or the main-thread result),
\* the promise of processData resolves and its continuation runs
AfterSettled ==
    LET settled == {c \in 1..Len(calls) : ~calls[c].ret.done /\ calls'[c].ret.done}
        waiting == {i \in 1..Len(invocations) :
                       invocations[i].pc = "running" /\ invocations[i].call \in settled}
    IN IF waiting = {}
       THEN UNCHANGED <<invocations, processedData, isLoading, error>>
       ELSE LET i == CHOOSE i \in waiting : TRUE
            IN /\ invocations' = [invocations EXCEPT ![i].pc = "done",
                                                     ![i].outcome = "value"]
               /\ Settle(i, TRUE, invocations[i].version)

DeliverMessage ==
    /\ HookOnMessage
    /\ AfterSettled
    /\ UNCHANGED <<uiVars, fnVars, version, dataLength>>

DeliverError ==
    /\ HookOnError
    /\ AfterSettled
    /\ UNCHANGED <<uiVars, fnVars, version, dataLength>>

DeliverTimeout(i) ==
    /\ HookTimeout(i)
    /\ AfterSettled
    /\ UNCHANGED <<uiVars, fnVars, version, dataLength>>

NextScatterShell ==
    \/ ChangeDeps
    \/ ReplaceData
    \/ Reprocess
    \/ \E i \in 1..MaxInvocations : TimerFireSync(i)
    \/ \E i \in 1..MaxInvocations : TimerFireWorker(i)
    \/ WorkerHandle
    \/ DeliverMessage
    \/ DeliverError
    \/ \E i \in 1..MaxCalls : DeliverTimeout(i)

\* timers fire, the worker handles the messages it is posted and its
\* responses are delivered
SpecScatterShell ==
    /\ InitScatterShell
    /\ [][NextScatterShell]_vars
    /\ WF_vars(\E i \in 1..MaxInvocations : TimerFireSync(i) \/ TimerFireWorker(i))
    /\ WF_vars(WorkerHandle)
    /\ WF_vars(DeliverMessage)
    /\ WF_vars(\E i \in 1..MaxCalls : DeliverTimeout(i))

-----------------------------------------------------------------------------
(* Properties of the engines *)

StatsCall ==
    \/ out.op \in {"analytics_stats", "sync_stats"}
    \/ out.op = "worker" /\ out.type = "CALCULATE_STATISTICS"

\* the summary the statistics call returned
StatsResult == IF out.op = "worker" THEN out.response.result ELSE out.result

\* the sample the implementation called has summarised
StatsSample ==
    IF out.op = "analytics_stats" THEN analyticsValues(records)
    ELSE IF out.op = "sync_stats" THEN syncValues(records)
    ELSE workerValues(records)

ValidRecords(data) == SelectSeq(data, IsValid)

\* C4: the worker's handler for CALCULATE_STATISTICS and for DOWNSAMPLE_DATA
\* returns exactly what the main-thread implementations (calculateStatisticsSync,
\* the analytics calculateStatistics, downsampleDataSync) return for the same input.
C4_WorkerEqualsMainThread ==
    out.op = "worker" =>
        /\ out.type = "CALCULATE_STATISTICS" =>
             /\ out.response.success
             /\ out.response.result = calculateStatisticsSync(records)
             /\ out.response.result = calculateStatistics(records)
        /\ out.type = "DOWNSAMPLE_DATA" =>
             /\ out.response.success
             /\ out.response.result =
                  downsampleDataSync(records, out.config.maxPoints, out.config.method)

\* C5: for every non-empty set of valid values, generateHistogramData returns
\* bins whose originalCount values sum to the number of valid values and whose
\* percentages sum to 100 (percentage is kept in units of 1 / number of valid values).
C5_HistogramConservesSample ==
    (out.op = "histogram" /\ Len(ValidRecords(records)) > 0) =>
        /\ ~out.outcome.threw
        /\ Sum([i \in 1..Len(out.outcome.value) |-> out.outcome.value[i].originalCount])
             = Len(ValidRecords(records))
        /\ Sum([i \in 1..Len(out.outcome.value) |-> out.outcome.value[i].percentage])
             = 100 * Len(ValidRecords(records))

\* C6: in every implementation of the statistics engine, the records whose
\* field value is negative, NaN or non-numeric change none of the summary
\* fields: the summary is the one of the collection without those records.
C6_OnlyValidValuesSummarised ==
    /\ out.op = "analytics_stats" => out.result = calculateStatistics(ValidRecords(records))
    /\ out.op = "sync_stats" => out.result = calculateStatisticsSync(ValidRecords(records))
    /\ (out.op = "worker" /\ out.type = "CALCULATE_STATISTICS") =>
          out.response.result = workerCalculateStatistics(ValidRecords(records))

\* the nearest rank of percentile p in a sample of n >= 1 values: the least
\* k >= 1 with 100 * k >= n * p, at most n
NearestRank(n, p) ==
    Min2(n, CHOOSE k \in 1..(n + 1) : 100 * k >= n * p /\ (k = 1 \/ 100 * (k - 1) < n * p))

\* v is the k-th smallest value of the sample: fewer than k values are below
\* v and at least k are at most v
IsKthSmallest(sample, k, v) ==
    /\ \E i \in 1..Len(sample) : sample[i] = v
    /\ Cardinality({i \in 1..Len(sample) : sample[i] < v}) < k
    /\ Cardinality({i \in 1..Len(sample) : sample[i] <= v}) >= k

C9_NoValidValueAllZero ==
    (StatsCall /\ Len(ValidRecords(records)) = 0) => StatsResult = ZeroSummary

\* C10: on an empty input the histogram returns an empty bin sequence,
\* getPercentileRepos returns without throwing, and downsampleLTTB, sampleData
\* and deduplicatePoints return an empty sequence.
C10_EmptyInputEmptyResult ==
    /\ (out.op = "histogram" /\ Len(ValidRecords(records)) = 0) =>
          out.outcome = Returned(<<>>)
    /\ (out.op = "percentile_repos" /\ records = <<>>) => ~out.outcome.threw
    /\ (out.op \in {"lttb", "sample", "deduplicate"} /\ points = <<>>) =>
          out.result = <<>>

-----------------------------------------------------------------------------
(* Properties of useWebWorker and its callers *)

\* C2: every promise returned by processData is settled no later than 30 s
\* after its dispatch: once the timer of a call has fired, the call is
\* resolved or rejected.
C2_SettledWithin30s ==
    \A i \in 1..Len(calls) : calls[i].timer = "fired" => calls[i].status # "pending"

\* C3: on any background failure (no worker, a failure response, the worker's
\* error event, 30 s without an answer) the caller has fallen back to the
\* synchronous computation on its own input and returned that result.
C3_FailureFallsBackToSync ==
    \A i \in 1..Len(calls) :
        (calls[i].status = "rejected"
           \/ (calls[i].timer = "fired" /\ calls[i].status # "resolved")) =>
            /\ calls[i].ret.done
            /\ calls[i].ret.value = SyncFallback(kind, calls[i].data, calls[i].config)

-----------------------------------------------------------------------------
(* Properties of useAsyncDataProcessing *)

\* C1: a stale result never overwrites a newer one: once an invocation B and
\* every invocation started before it have completed, and B produced a
\* result, processedData does not hold the result of an invocation started
\* before B.
C1_NoStaleOverwrite ==
    \A b \in 1..Len(invocations) :
        ((\A a \in 1..b : invocations[a].pc = "done") /\ invocations[b].outcome = "value") =>
            ~(processedData.by \in 1..(b - 1))

-----------------------------------------------------------------------------
(* Properties of the scaling transform *)

AllEqual(s) == \A i, j \in 1..Len(s) : s[i] = s[j]

\* C11: for each scaling method, applyScaling on a sequence whose values are
\* all equal returns the same values, element for element; and robust scaling
\* returns the values unchanged whenever Q3 = Q1.
C11_ConstantSequenceUnchanged ==
    out.op = "scaling" =>
        LET n == Len(records)
            sorted == SortAsc(Map(records, ValOf))
        IN /\ AllEqual(records) => out.result.values = FlValues(records)
           /\ (out.method = "robust" /\ n >= 1
                 /\ sorted[((3 * n) \div 4) + 1] = sorted[(n \div 4) + 1]) =>
                 out.result.values = FlValues(records)

\* C12: applyScaling leaves the caller's sequence as it was, returns a
\* sequence that is not the caller's own array, for every method, and returns
\* an empty sequence for an empty one.
C12_ReturnsNewSequence ==
    out.op = "scaling" =>
        /\ out.values = FlValues(records)
        /\ ~out.result.sameArray
        /\ records = <<>> => out.result.values = <<>>

-----------------------------------------------------------------------------
(* Properties of the data reduction layer *)

\* C13: for an input longer than targetPoints >= 3, downsampleLTTB returns
\* exactly targetPoints points, the first of which is the first input point
\* and the last of which is the last input point; for an input of at most
\* targetPoints points, or targetPoints < 3, it returns the input.
C13_LTTBSizeAndEnds ==
    out.op = "lttb" =>
        IF Len(points) > out.targetPoints /\ out.targetPoints >= 3
        THEN /\ Len(out.result) = out.targetPoints
             /\ out.result[1] = points[1]
             /\ out.result[Len(out.result)] = points[Len(points)]
        ELSE out.result = points

\* downsampleLTTB has reduced an input longer than targetPoints >= 3
C13_Witness ==
    /\ out.op = "lttb"
    /\ out.targetPoints >= 3
    /\ Len(points) > out.targetPoints
    /\ Len(out.result) < Len(points)

\* a deduplication call has returned: the library's or the worker's
DedupCall ==
    \/ out.op = "deduplicate"
    \/ out.op = "worker" /\ out.type = "DEDUPLICATE_POINTS" /\ out.response.success

DedupTolerance == IF out.op = "worker" THEN out.config.tolerance ELSE out.tolerance

DedupResult == IF out.op = "worker" THEN out.response.result ELSE out.result

\* C14: for every input and tolerance > 0, the output of deduplicatePoints has
\* no two points at a distance below the tolerance, its elements are input
\* elements (same identity) in their original relative order, and the first
\* input point is kept.
C14_DedupSeparatedSubsequence ==
    (DedupCall /\ DedupTolerance > 0) =>
        LET r == DedupResult
        IN /\ \A i, j \in 1..Len(r) : i < j => ~Closer(r[i], r[j], DedupTolerance)
           /\ \A i \in 1..Len(r) : r[i].id \in 1..Len(points) /\ r[i] = points[r[i].id]
           /\ \A i, j \in 1..Len(r) : i < j => r[i].id < r[j].id
           /\ points # <<>> => (r # <<>> /\ r[1] = points[1])

\* deduplicatePoints has dropped a point and kept a point that is not
\* adjacent to the point it follows in the output
C14_Witness ==
    /\ out.op = "deduplicate"
    /\ out.tolerance > 0
    /\ Len(out.result) >= 2
    /\ Len(out.result) < Len(points)
    /\ \E i \in 1..(Len(out.result) - 1) : out.result[i + 1].id > out.result[i].id + 1

-----------------------------------------------------------------------------
(* Properties of the scatter reduction *)

\* the elements of r are elements of data, in their original order
IsSubsequenceOf(r, data) ==
    /\ \A i \in 1..Len(r) : r[i].id \in 1..Len(data) /\ r[i] = data[r[i].id]
    /\ \A i \in 1..(Len(r) - 1) : r[i].id < r[i + 1].id

\* r has exactly target points of data, from its first to its last point
IsLTTBShape(r, data, target) ==
    /\ Len(r) = target
    /\ r[1] = data[1]
    /\ r[target] = data[Len(data)]
    /\ IsSubsequenceOf(r, data)

\* C15: with optimization enabled the reduction is chosen by the point count
\* n: n <= 2000 passes the points through, n > 10000 gives the LTTB selection
\* of 1500 points, 5000 < n <= 10000 the LTTB selection of 2000 points,
\* 2000 < n <= 5000 the deduplicated points, systematically sampled down to
\* 2000 if more than 2000 remain; without optimization the points pass
\* through; 12000 points give exactly 1500 points, the first and the last of
\* which are the first and the last input point.
C15_ScatterStrategyBySize ==
    (out.op = "scatter" /\ out.pc = "done") =>
        LET n == out.input.n
            data == ScatterProcessed
            r == out.result
        IN IF ~out.optimizeData \/ n <= DedupThreshold
           THEN out.stages = <<>> /\ r = data
           ELSE IF n > LargeThreshold
           THEN out.stages = <<"lttb">> /\ IsLTTBShape(r, data, LargeTarget)
           ELSE IF n > MediumThreshold
           THEN out.stages = <<"lttb">> /\ IsLTTBShape(r, data, MediumTarget)
           ELSE /\ out.stages \in {<<"dedup">>, <<"dedup", "sample">>}
                /\ Len(r) <= SampleTarget
                /\ out.stages = <<"dedup", "sample">> => Len(r) = SampleTarget
                /\ r[1] = data[1]
                /\ IsSubsequenceOf(r, data)
                /\ \A i, j \in 1..Len(r) : i < j => ~Closer(r[i], r[j], ScatterTolerance)

\* the reduction of 12000 points has returned 1500 points
C15_Witness ==
    /\ out.op = "scatter"
    /\ out.pc = "done"
    /\ out.optimizeData
    /\ out.input.n = ScenarioPoints
    /\ Len(out.result) = LargeTarget
    /\ out.result[1] = ScatterPoint(1, out.input.spacing)
    /\ out.result[LargeTarget] = ScatterPoint(ScenarioPoints, out.input.spacing)

-----------------------------------------------------------------------------
(* Properties of the percentile selector *)

\* 0-based position of record i of data when data is sorted ascending by
\* size, records of equal size in input order
SortedIndex(data, i) ==
    Cardinality({j \in 1..Len(data) :
        \/ data[j].val < data[i].val
        \/ data[j].val = data[i].val /\ j < i})

ClampedRank(n, p) == Max2(0, Min2(CeilDiv(n * p, 100) - 1, n - 1))

\* C16: over n >= 1 records getPercentileRepos returns, for each requested
\* percentile p, the record at index clamp(ceil(n * p / 100) - 1, 0, n - 1)
\* of the records sorted ascending by Repo_Size_mb, together with p and that
\* record's size; over 100 records P10 is sorted index 9 and P90 sorted
\* index 89, in getPercentileRepos and in SizeAnalysis; the input collection
\* is left in its original order.
C16_PercentileSelector ==
    /\ (out.op = "percentile_repos" /\ Len(out.input) >= 1) =>
        LET n == Len(out.input)
            ps == out.percentiles
        IN /\ ~out.outcome.threw
           /\ Len(out.outcome.value) = Len(ps)
           /\ \A k \in 1..Len(ps) :
                LET r == out.outcome.value[k]
                IN /\ r.repo \in 1..n
                   /\ SortedIndex(out.input, r.repo) = ClampedRank(n, ps[k])
                   /\ r.percentile = ps[k]
                   /\ r.size = out.input[r.repo].val
                   /\ (n = 100 /\ ps[k] = 10) => SortedIndex(out.input, r.repo) = 9
                   /\ (n = 100 /\ ps[k] = 90) => SortedIndex(out.input, r.repo) = 89
    /\ (out.op = "size_analysis" /\ Len(out.input) >= 1) =>
        LET n == Len(out.input)
            r == out.result
        IN /\ \A k \in 1..n : SortedIndex(out.input, r.sortedData[k]) = k - 1
           /\ r.p10Index = CeilDiv(n * 10, 100) - 1
           /\ r.p90Index = CeilDiv(n * 90, 100) - 1
           /\ n = 100 => r.p10Index = 9 /\ r.p90Index = 89
    /\ out.op \in {"percentile_repos", "size_analysis"} => records = out.input

\* P10 and P90 have been selected over 100 records that were not sorted
C16_Witness ==
    /\ out.op = "percentile_repos"
    /\ Len(out.input) = 100
    /\ out.percentiles = <<10, 90>>
    /\ \E i \in 1..99 : out.input[i].val > out.input[i + 1].val
    /\ SortedIndex(out.input, out.outcome.value[1].repo) = 9
    /\ SortedIndex(out.input, out.outcome.value[2].repo) = 89

-----------------------------------------------------------------------------
(* Properties of useProgressiveRendering *)

\* the sequence and batchSize are those of the mount
ProgressiveFixed == progressive.mounted /\ progressive.changes = 0

\* C17: for a sequence and batchSize >= 1 that stay fixed,
\* useProgressiveRendering reveals a prefix of the sequence whose length
\* starts at min(batchSize, length), grows by batchSize (up to the length) on
\* each timer tick and never shrinks, and eventually equals the full length,
\* with isComplete true and visibleData the whole sequence in its order;
\* isComplete is never true while fewer items than the full sequence are
\* revealed.
C17_ProgressiveReveal ==
    /\ progressive.renderedCount = Min2(progressive.batchSize, totalCount)
    /\ [](ProgressiveFixed =>
            /\ progressive.renderedCount <= totalCount
            /\ visibleData = SubSeq(progressive.data, 1, progressive.renderedCount)
            /\ progressive.isComplete =>
                  progressive.renderedCount = totalCount /\ visibleData = progressive.data)
    /\ [][ProgressiveFixed' =>
            /\ progressive'.renderedCount >= progressive.renderedCount
            /\ IntervalTick =>
                  progressive'.renderedCount =
                      Min2(progressive.renderedCount + progressive.batchSize, totalCount)
            /\ ~IntervalTick =>
                  progressive'.renderedCount = progressive.renderedCount]_vars
    /\ <>(~ProgressiveFixed \/ (progressive.isComplete /\ visibleData = progressive.data))

\* a sequence that takes a first batch, a whole second batch and a shorter
\* last one has been revealed completely
C17_Witness ==
    /\ ProgressiveFixed
    /\ totalCount > 2 * progressive.batchSize
    /\ totalCount % progressive.batchSize # 0
    /\ progressive.isComplete
    /\ visibleData = progressive.data

-----------------------------------------------------------------------------
(* Properties of an invocation of useAsyncDataProcessing *)

Started(i) == i <= Len(invocations)

\* C18: each processData invocation on non-empty data sets isLoading = true
\* and error = null and leaves the processor to a later tick; it then
\* reaches exactly one terminal outcome, the processor's value stored in
\* processedData or its error stored in error, isLoading being false right
\* after, and does not leave that outcome; on empty data it sets
\* processedData = null and isLoading = false and does not run the processor.
C18_InvocationStateMachine ==
    /\ [][Len(invocations') > Len(invocations) =>
            LET inv == invocations'[Len(invocations')]
            IN IF dataLength' = 0
               THEN inv.pc = "done" /\ inv.outcome = "empty"
                    /\ processedData' = NullData /\ isLoading' = FALSE
               ELSE inv.pc = "timer" /\ inv.outcome = "none"
                    /\ isLoading' = TRUE /\ error' = "null"]_vars
    /\ [][\A i \in 1..Len(invocations) :
            /\ invocations[i].pc = "done" => invocations'[i] = invocations[i]
            /\ (invocations[i].pc # "done" /\ invocations'[i].pc = "done") =>
                  /\ isLoading' = FALSE
                  /\ invocations'[i].outcome \in {"value", "error"}
                  /\ invocations'[i].outcome = "value" =>
                        processedData'.by = i /\ error' = error
                  /\ invocations'[i].outcome = "error" =>
                        error' # "null" /\ processedData' = processedData]_vars
    /\ \A i \in 1..MaxInvocations :
          Started(i) ~> (Started(i) /\ invocations[i].pc = "done")

-----------------------------------------------------------------------------
(* Properties of the histogram bins *)

SampleMin(sample) ==
    CHOOSE v \in {sample[i] : i \in 1..Len(sample)} : \A i \in 1..Len(sample) : v <= sample[i]

SampleMax(sample) ==
    CHOOSE v \in {sample[i] : i \in 1..Len(sample)} : \A i \in 1..Len(sample) : v >= sample[i]

\* C19: for every non-empty valid sample generateHistogramData returns
\* exactly binCount bins, contiguous and of equal width
\* w = (max - min) / binCount: bin 0 starts at the sample minimum, each bin
\* ends where the next one starts and the last bin ends at the sample
\* maximum (start and end are kept in units of 1 / binCount).
C19_ContiguousEqualWidthBins ==
    (out.op = "histogram" /\ Len(ValidRecords(records)) > 0) =>
        LET sample == Map(ValidRecords(records), ValOf)
            binCount == histogramBinCount(Len(sample), out.optimizeData)
            lo == SampleMin(sample)
            hi == SampleMax(sample)
        IN /\ ~out.outcome.threw
           /\ Len(out.outcome.value) = binCount
           /\ \A i \in 1..binCount :
                LET bin == out.outcome.value[i]
                IN /\ bin.start = lo * binCount + (i - 1) * (hi - lo)
                   /\ bin.end = lo * binCount + i * (hi - lo)
                   /\ i < binCount => bin.end = out.outcome.value[i + 1].start
           /\ out.outcome.value[1].start = lo * binCount
           /\ out.outcome.value[binCount].end = hi * binCount

-----------------------------------------------------------------------------
(* Properties of CSVUploader *)

\* the records of the files of csvFiles that parse, in file order
RECURSIVE ParsedFrom(_, _)
ParsedFrom(csvFiles, i) ==
    IF i > Len(csvFiles) THEN <<>>
    ELSE (IF csvFiles[i].ok THEN parseCSV(csvFiles[i]) ELSE <<>>)
             \o ParsedFrom(csvFiles, i + 1)

StatusStep(before, after) ==
    \/ after = before
    \/ before = "pending" /\ after = "processing"
    \/ before = "processing" /\ after \in {"completed", "error"}

\* C20: in a batch upload the CSV files are processed one at a time in
\* order (while the batch is loading the list shows finished files, then one
\* file in processing, then pending files), each file's status moves
\* pending -> processing -> completed or error and never back, a file that
\* fails does not stop the others (the batch ends after its last file),
\* onDataLoaded is called exactly once with the records of the parsed files
\* in file order if and only if a record was parsed, and isLoading is false
\* when the batch ends.
C20_BatchUpload ==
    /\ [](uploader.isLoading =>
            \E k \in 1..Len(uploader.fileProgress) :
                /\ uploader.fileProgress[k].status = "processing"
                /\ \A j \in 1..(k - 1) :
                      uploader.fileProgress[j].status \in {"completed", "error"}
                /\ \A j \in (k + 1)..Len(uploader.fileProgress) :
                      uploader.fileProgress[j].status = "pending")
    /\ [][\A k \in 1..Len(uploader.fileProgress) :
            (k <= Len(uploader'.fileProgress)
                /\ uploader'.fileProgress[k].name = uploader.fileProgress[k].name) =>
                StatusStep(uploader.fileProgress[k].status,
                           uploader'.fileProgress[k].status)]_vars
    /\ [](\A b \in 1..Len(uploader.batches) :
            uploader.batches[b].pc = "done" =>
                LET batch == uploader.batches[b]
                    parsed == ParsedFrom(batch.csvFiles, 1)
                    made == {k \in 1..Len(uploader.loaded) : uploader.loaded[k].batch = b}
                IN /\ batch.i = Len(batch.csvFiles) + 1
                   /\ Cardinality(made) = (IF Len(parsed) > 0 THEN 1 ELSE 0)
                   /\ \A k \in made : uploader.loaded[k].data = parsed)
    /\ [][\A b \in 1..Len(uploader.batches) :
            (uploader.batches[b].pc = "reading" /\ uploader'.batches[b].pc = "done") =>
                ~uploader'.isLoading]_vars

-----------------------------------------------------------------------------
(* Properties of the LTTB selection *)

\* the 0-based indices of bucket k (k from 0) of an input of n points
BucketOf(k, n, targetPoints) ==
    {j \in BucketBound(k, n, targetPoints)..(BucketBound(k + 1, n, targetPoints) - 1) : j < n}

\* twice the area of the triangle of prevPoint, cand and the average of the
\* points of data at the 0-based indices avgOf, times their number
AreaWithAverage(data, prevPoint, cand, avgOf) ==
    Abs((prevPoint.x * Cardinality(avgOf)
            - Sum([k \in 1..Len(data) |-> IF (k - 1) \in avgOf THEN data[k].x ELSE 0]))
          * (cand.y - prevPoint.y)
        - (prevPoint.x - cand.x)
          * (Sum([k \in 1..Len(data) |-> IF (k - 1) \in avgOf THEN data[k].y ELSE 0])
               - prevPoint.y * Cardinality(avgOf)))

\* C21: in downsampleLTTB, for each intermediate bucket the point selected
\* lies in the current bucket and maximises, among the points of that bucket,
\* the area of the triangle formed with the previously selected point and
\* the average point of the next bucket (the bucket that follows the current
\* one), not the average of the current bucket.
C21_LTTBUsesNextBucketAverage ==
    (out.op = "lttb" /\ Len(points) > out.targetPoints /\ out.targetPoints >= 3) =>
        \A i \in 1..(out.targetPoints - 2) :
            LET n == Len(points)
                current == BucketOf(i - 1, n, out.targetPoints)
                next == BucketOf(i, n, out.targetPoints)
                prevPoint == out.result[i]
                selected == out.result[i + 1]
            IN /\ (selected.id - 1) \in current
               /\ \A j \in current :
                     AreaWithAverage(points, prevPoint, points[j + 1], next)
                        <= AreaWithAverage(points, prevPoint, selected, next)

-----------------------------------------------------------------------------
(* Properties of the bin assignment *)

\* floor((v - lo) / binWidth) with binWidth = (hi - lo) / binCount, hi > lo
FloorBin(v, lo, hi, binCount) == ((v - lo) * binCount) \div (hi - lo)

\* C22: each valid value v is counted in exactly the bin with index
\* min(floor((v - min) / binWidth), binCount - 1), which always lies in
\* [0, binCount - 1], and the sample maximum lands in the last bin.  For
\* [0, 0, 0, 0, 10] there are 5 bins, bin 0 has count 4, bin 4 has count 1
\* and the other bins have count 0.
C22_BinAssignment ==
    (out.op = "histogram" /\ Len(ValidRecords(records)) > 0) =>
        LET sample == Map(ValidRecords(records), ValOf)
            binCount == histogramBinCount(Len(sample), out.optimizeData)
            lo == SampleMin(sample)
            hi == SampleMax(sample)
            index(v) == Min2(FloorBin(v, lo, hi, binCount), binCount - 1)
        IN /\ ~out.outcome.threw
           /\ hi > lo
           /\ \A k \in 1..Len(sample) : index(sample[k]) \in 0..(binCount - 1)
           /\ index(hi) = binCount - 1
           /\ \A i \in 1..Len(out.outcome.value) :
                out.outcome.value[i].originalCount
                  = Cardinality({k \in 1..Len(sample) : index(sample[k]) = i - 1})
           /\ records = FourZerosAndTen =>
                /\ Len(out.outcome.value) = 5
                /\ [i \in 1..5 |-> out.outcome.value[i].originalCount] = <<4, 0, 0, 0, 1>>

\* the histogram of a sample with max > min
C22_SpreadSample ==
    (out.op = "histogram" /\ Len(ValidRecords(records)) > 0
       /\ SampleMax(Map(ValidRecords(records), ValOf)) > SampleMin(Map(ValidRecords(records), ValOf)))
      => C22_BinAssignment

-----------------------------------------------------------------------------
(* Properties of the deduplication scan *)

\* the points kept before the point at position i is scanned
KeptBefore(r, i) == {k \in 1..Len(r) : r[k].id < i}

\* C23: deduplicatePoints scans the points in original order and keeps a
\* point unless its Euclidean distance to every already-kept point is below
\* the tolerance (the first point is kept).
C23_DedupDropsWhenCloseToEvery ==
    out.op = "deduplicate" =>
        /\ IsSubsequenceOf(out.result, points)
        /\ points # <<>> => (out.result # <<>> /\ out.result[1] = points[1])
        /\ \A i \in 2..Len(points) :
             (\E k \in 1..Len(out.result) : out.result[k].id = i)
                <=> ~(\A k \in KeptBefore(out.result, i) :
                        Closer(points[i], out.result[k], out.tolerance))

\* what the scan does: a point is kept unless its distance to SOME
\* already-kept point is below the tolerance
C23_DedupDropsWhenCloseToSome ==
    out.op = "deduplicate" =>
        /\ IsSubsequenceOf(out.result, points)
        /\ points # <<>> => (out.result # <<>> /\ out.result[1] = points[1])
        /\ \A i \in 2..Len(points) :
             (\E k \in 1..Len(out.result) : out.result[k].id = i)
                <=> ~(\E k \in KeptBefore(out.result, i) :
                        Closer(points[i], out.result[k], out.tolerance))

-----------------------------------------------------------------------------
(* Properties of systematic sampling *)

\* the elements of data at the 0-based indices 0, s, 2s, ..., (target - 1) * s
\* with s = floor(n / target)
EveryFloorStep(data, target) ==
    [k \in 1..target |-> data[(k - 1) * (Len(data) \div target) + 1]]

SamplingCall ==
    /\ out.op \in {"lib_systematic", "worker_systematic", "sync_systematic", "use_downsampling"}
    /\ out.op = "use_downsampling" => out.enabled

\* C24: for n > target >= 1, systematic sampling returns exactly target
\* elements, the input elements at indices 0, s, 2s, ..., (target - 1) * s with
\* s = floor(n / target), in original order, and the four implementations
\* (systematicSample of the optimisation library, systematicSample of the
\* worker, downsampleDataSync, useDownsampling) return the same sequence for
\* the same input.
C24_SystematicSampling ==
    (SamplingCall /\ Len(records) > out.size /\ out.size >= 1) =>
        /\ Len(out.result) = out.size
        /\ out.result = EveryFloorStep(records, out.size)
        /\ sampleData(records, out.size, "systematic") = {out.result}
        /\ workerDownsampleData(records, out.size, "systematic") = {out.result}
        /\ downsampleDataSync(records, out.size, "systematic") = out.result
        /\ useDownsampling(records, out.size, TRUE) = out.result

\* useDownsampling has sampled 1..10 down to 4: every second element, of
\* which the loop collects five
C24_Witness ==
    /\ out.op = "use_downsampling"
    /\ out.enabled
    /\ records = OneToTen
    /\ out.size = 4
    /\ out.result = <<Num(1), Num(3), Num(5), Num(7)>>

-----------------------------------------------------------------------------
(* Properties of overlapping processData calls *)

\* the results the worker can compute for the request of call c
OwnResults(c) ==
    {response.result :
        response \in {r \in dataWorkerOnMessage(TypeOf(kind), c.data, c.config) : r.success}}

\* C25: in useWebWorker a response message settles only the promise of the
\* processData call whose request produced it: in every interleaving of the
\* calls made on one hook instance, a call that is resolved is resolved with
\* a result computed for its own request, never with the result computed for
\* another call's request.
C25_ResolvedWithOwnResponse ==
    \A i \in 1..Len(calls) :
        calls[i].status = "resolved" => calls[i].value \in OwnResults(calls[i])

\* C26: in useWebWorker a processData call is rejected with 'Worker timeout'
\* only if its own request has gone unanswered for 30 seconds, that is only
\* once its own timer has fired: the timer started by an earlier call never
\* rejects a later call that is still pending.
C26_TimeoutOnlyByOwnTimer ==
    \A i \in 1..Len(calls) :
        (calls[i].status = "rejected" /\ calls[i].reason = "Worker timeout") =>
            calls[i].timer = "fired"

\* the timer of a call that is already settled leaves the pending calls pending
SettledCallsTimerRejectsNone ==
    [][\A i, j \in 1..Len(calls) :
          (calls[i].timer = "armed" /\ calls'[i].timer = "fired"
             /\ calls[i].status # "pending" /\ calls[j].status = "pending")
            => calls'[j].status = "pending"]_vars

-----------------------------------------------------------------------------
(* Properties of the loading flag and of data replacement *)

\* invocation i has called its processor and the processor has not returned
Computing(i) == i <= Len(invocations) /\ invocations[i].pc = "running"

\* C27: in useAsyncDataProcessing isLoading is true in every state in which
\* at least one processData invocation has started its computation and not
\* yet completed, including when two invocations overlap and the earlier one
\* completes first.
C27_LoadingWhileComputing ==
    (\E i \in 1..MaxInvocations : Computing(i)) => isLoading

\* the case of two overlapping invocations on non-empty data: the completion
\* of one leaves isLoading true while the other is computing
OverlapKeepsLoading ==
    [][\A i, j \in 1..MaxInvocations :
          (Computing(i) /\ Computing(j) /\ i < j /\ invocations'[i].pc = "done"
             /\ Computing(j)')
            => isLoading']_vars

\* every invocation has completed with a value
AllCompletedWithValue ==
    \A i \in 1..Len(invocations) :
        invocations[i].pc = "done" /\ invocations[i].outcome \in {"value", "empty"}

\* C28: whenever the record collection passed to useAsyncDataProcessing is
\* replaced by a different collection, including one with the same number of
\* records, the processor is run again and processedData eventually reflects
\* the new collection rather than the old one: once every invocation has
\* completed with a value, processedData is the result computed from the
\* collection of the latest render.
C28_ReplacedDataReprocessed ==
    (AllCompletedWithValue /\ dataLength > 0) => processedData.version = version

\* a render with a new collection or new dependencies starts an invocation
NewRenderInvokes ==
    [][(version' = version + 1 /\ dataLength' > 0) =>
          Len(invocations') = Len(invocations) + 1]_vars

-----------------------------------------------------------------------------
(* Properties of the values useProgressiveRendering exposes *)

\* C29: in every state that useProgressiveRendering exposes, including the
\* render that follows a change of the input sequence's length and precedes
\* the effect that resets the counter, renderedCount <= totalCount and
\* 0 <= progress <= 100 (progressValue is in units of 1 / progressDen).
C29_ExposedCountsInRange ==
    progressive.mounted =>
        /\ progressive.renderedCount <= totalCount
        /\ 0 <= progressValue
        /\ progressValue <= 100 * progressDen

\* the same for the renders whose effect has run
SettledCountsInRange ==
    (progressive.mounted /\ ~progressive.effectPending) => C29_ExposedCountsInRange

-----------------------------------------------------------------------------
(* Properties of the scaled bins *)

\* the sample of the histogram call and its spread
HistogramSample == Map(ValidRecords(records), ValOf)

HasSpread(sample) == Len(sample) > 0 /\ SampleMax(sample) > SampleMin(sample)

\* C30: when a scaling method is active on a sample with non-zero spread, the
\* scaled values are binned against their own min/max with the same bin
\* count, every scaled value is counted (the scaledCount values sum to the
\* sample size) and, in exact arithmetic, each bin's scaledCount equals its
\* originalCount; with method none scaledCount equals originalCount in every
\* bin.
C30_ScaledBinsMatchOriginal ==
    (out.op = "histogram" /\ HasSpread(HistogramSample)) =>
        LET sample == HistogramSample
            binCount == histogramBinCount(Len(sample), out.optimizeData)
            scaled == applyScaling(sample, out.scalingMethod)
            scaledMin == SampleMin(scaled.nums)
            scaledMax == SampleMax(scaled.nums)
            bins == out.outcome.value
        IN /\ ~out.outcome.threw
           /\ Len(bins) = binCount
           /\ \A i \in 1..Len(bins) : bins[i].scaledCount = bins[i].originalCount
           /\ out.scalingMethod # "none" =>
                /\ scaledMax > scaledMin
                /\ \A i \in 1..Len(bins) :
                     /\ bins[i].scaledStart = scaledMin * binCount + (i - 1) * (scaledMax - scaledMin)
                     /\ bins[i].scaledEnd = scaledMin * binCount + i * (scaledMax - scaledMin)
                     /\ bins[i].scaledDen = scaled.den
                     /\ bins[i].scaledRoot = scaled.root
                     /\ bins[i].scaledCount =
                          Cardinality({k \in 1..Len(sample) :
                              Min2(FloorBin(scaled.nums[k], scaledMin, scaledMax, binCount),
                                   binCount - 1) = i - 1})
                /\ Sum([i \in 1..Len(bins) |-> bins[i].scaledCount]) = Len(sample)

\* a z-score histogram of a sample that is not symmetric about the middle of
\* its range, with values in at least three bins
C30_Witness ==
    /\ out.op = "histogram"
    /\ out.scalingMethod = "zscore"
    /\ HasSpread(HistogramSample)
    /\ ~out.outcome.threw
    /\ Cardinality({i \in 1..Len(out.outcome.value) : out.outcome.value[i].scaledCount > 0}) >= 3
    /\ \E i \in 1..Len(out.outcome.value) :
          out.outcome.value[i].scaledCount
             # out.outcome.value[Len(out.outcome.value) + 1 - i].scaledCount

====
